---------------------------- MODULE Spec2Model ----------------------------
(***************************************************************************)
(* Diagnostic context extraction of ta-lib (lib/src/highlighting/          *)
(* code_context.rs): byte offset to line/column conversion, span text      *)
(* extraction, scope location, truncation, and the entry point             *)
(* extract_code_context; the error annotations (error_annotations.rs),     *)
(* the rendering of highlighted code (syntect_highlighter.rs), the         *)
(* TypeErrorVisitor (visitors/type_error_visitor.rs) and the FileWatcher   *)
(* (watcher.rs).                                                           *)
(*                                                                         *)
(* A Rust &str is a sequence of bytes.  Each byte is one of the classes    *)
(*   "a"  an ASCII byte that is no white space, brace or newline           *)
(*   "NL" '\n'            "SP" ' '                                         *)
(*   "{"  "}"             the braces                                       *)
(*   "K"  the word of a block keyword (function, class, interface, type,   *)
(*        enum); the space that follows it is a separate "SP" byte         *)
(*   "E1" "E2"  the lead byte and the continuation byte of a two-byte      *)
(*        UTF-8 character                                                  *)
(*   "M(" n ")M"  the three parts of an omission-marker line, n being the  *)
(*        decimal number of omitted lines                                  *)
(*   "&"  "<"  ">"  the bytes html_escape replaces, in highlighted texts   *)
(* Carriage returns and characters of three or four bytes are not among    *)
(* the bytes of the model's texts.                                         *)
(* Offsets are 0-based byte offsets as in Rust; TLA+ sequences are 1-based.*)
(* A call returns [tag |-> "Ok", ...] or [tag |-> "Err", ...]; a call that *)
(* panics yields [tag |-> "Panic"].                                        *)
(***************************************************************************)
EXTENDS Integers, Sequences, FiniteSets, TLC

VARIABLES
    source,     \* the text handed to the operation (source or full_code)
    span,       \* error_span: [start, end], u32 byte offsets
    scope,      \* apply_truncation's scope_span and scope_type
    ast,        \* the parser's scope-bearing nodes, in visiting order
    build,      \* "debug" (overflow checks on) or "release" (wrapping)
    op,         \* the operation that has been called, "none" before
    result,     \* what the call returned
    annotations, \* the ErrorAnnotation list handed to render_errors_*
    diagnostics, \* TypeErrorVisitor.diagnostics: the parser's diagnostics
    visitor,    \* the TypeErrorVisitor: errors, processed_errors,
                \* current_scope, and how far visit_program has come
    highlighted, \* the HighlightedCode handed to its render_html
    watcher     \* the FileWatcher (handlers, previous_state), the watched
                \* files, the debouncer's pending events, and what the last
                \* call of process_debounced_events delivered and returned

vars == <<source, span, scope, ast, build, op, result,
          annotations, diagnostics, visitor, highlighted, watcher>>

\* what a call leaves alone: its arguments, and the visitor it does not use
idle == <<source, span, scope, ast, build, annotations, diagnostics, visitor,
          highlighted, watcher>>

\* no FileWatcher has been made
NoWatcher == [handlers |-> 0]

\* a HighlightedCode without segments
NoCode == [segments |-> <<>>, indent_spaces |-> 0]

\* TypeErrorVisitor::new
NewVisitor ==
    [errors |-> <<>>, processed_errors |-> {}, current_scope |-> <<>>,
     pc |-> 0, status |-> "new", panic_at |-> 0]

----------------------------------------------------------------------------
(* Bounds of the model. *)

\* characters in a text of the position/extraction specification
MaxChars == 3
\* how far past len(source) the drawn offsets go; the code only compares an
\* offset beyond len(source) with lengths, so len+1 stands for u32::MAX too
OffsetSlack == 1
\* lines in a text built from the line vocabulary
MaxVocabLines == 2
\* lines in a long text; the truncation threshold is 15
MaxLongLines == 16
\* the largest start of the scope span handed to apply_truncation
MaxScopeStart == 1
\* bytes in a parsed source
MaxSourceLen == 4
\* scope-bearing nodes in a parsed source
MaxNodes == 2
\* bytes in a source that holds a class with members
MaxClassLen == 5
\* nodes inside the class of such a source
MaxMembers == 2

----------------------------------------------------------------------------
(* Strings. *)

Min(a, b) == IF a < b THEN a ELSE b
Max(a, b) == IF a > b THEN a ELSE b

CharA  == <<"a">>
CharNL == <<"NL">>
CharSP == <<"SP">>
CharLB == <<"{">>
CharRB == <<"}">>
CharK  == <<"K">>
CharE  == <<"E1", "E2">>

RECURSIVE StringsUpTo(_, _)
\* all texts of at most n characters over the character set cs
StringsUpTo(cs, n) ==
    IF n = 0 THEN {<<>>}
    ELSE LET shorter == StringsUpTo(cs, n - 1)
         IN  shorter \cup {s \o c : s \in shorter, c \in cs}

\* str::is_char_boundary
IsCharBoundary(s, i) ==
    \/ i = 0
    \/ i = Len(s)
    \/ i < Len(s) /\ s[i + 1] # "E2"

\* &s[a..b]: panics unless a <= b <= len and both are character boundaries
StrSlice(s, a, b) ==
    IF a <= b /\ b <= Len(s) /\ IsCharBoundary(s, a) /\ IsCharBoundary(s, b)
    THEN [tag |-> "Ok", val |-> SubSeq(s, a + 1, b)]
    ELSE [tag |-> "Panic"]

\* .chars().filter(|&c| c == '\n').count()
CountNewlines(s) == Cardinality({i \in 1..Len(s) : s[i] = "NL"})
\* .chars().count(): every byte but a continuation byte starts a character
CountChars(s) == Cardinality({i \in 1..Len(s) : s[i] # "E2"})

\* (0..=byte_offset).rev().find(|&i| source.is_char_boundary(i)).unwrap_or(0)
PrevBoundary(s, byte_offset) ==
    LET found == {i \in 0..byte_offset : IsCharBoundary(s, i)}
    IN  IF found = {} THEN 0
        ELSE CHOOSE i \in found : \A j \in found : j <= i

\* the offset taken as it comes
SafeOffsetUnadjusted(s, byte_offset) == byte_offset
SafeOffset(s, byte_offset) ==
    IF ~IsCharBoundary(s, byte_offset) THEN PrevBoundary(s, byte_offset)
    ELSE byte_offset

calculate_line_number(s, byte_offset) ==
    IF byte_offset > Len(s) THEN [tag |-> "Ok", val |-> 1]
    ELSE LET safe_offset == SafeOffset(s, byte_offset)
             prefix == StrSlice(s, 0, safe_offset)
         IN  IF prefix.tag = "Panic" THEN [tag |-> "Panic"]
             ELSE [tag |-> "Ok", val |-> CountNewlines(prefix.val) + 1]

\* the start of the source taken for the start of the line
LineStartOfSource(prefix) == 0
\* source[..safe_offset].rfind('\n').map(|pos| pos + 1).unwrap_or(0)
LineStart(prefix) ==
    LET nls == {i \in 1..Len(prefix) : prefix[i] = "NL"}
    IN  IF nls = {} THEN 0
        ELSE CHOOSE i \in nls : \A j \in nls : j <= i

calculate_column_number(s, byte_offset) ==
    IF byte_offset > Len(s) THEN [tag |-> "Ok", val |-> 1]
    ELSE LET safe_offset == SafeOffset(s, byte_offset)
             prefix == StrSlice(s, 0, safe_offset)
         IN  IF prefix.tag = "Panic" THEN [tag |-> "Panic"]
             ELSE LET line_start == LineStart(prefix.val)
                      line == StrSlice(s, line_start, safe_offset)
                  IN  IF line.tag = "Panic" THEN [tag |-> "Panic"]
                      ELSE [tag |-> "Ok", val |-> CountChars(line.val) + 1]

\* Err(HighlightError::InvalidSpan { line, column }); a panic while the
\* line or column is computed is a panic of the caller
InvalidSpan(s, byte_offset) ==
    LET line == calculate_line_number(s, byte_offset)
        column == calculate_column_number(s, byte_offset)
    IN  IF line.tag = "Panic" \/ column.tag = "Panic" THEN [tag |-> "Panic"]
        ELSE [tag |-> "Err", line |-> line.val, column |-> column.val]

\* the slice taken with no check before it
extract_span_text_unchecked(s, sp) == StrSlice(s, sp.start, sp.end)
extract_span_text(s, sp) ==
    LET start == sp.start
        end == sp.end
    IN  IF start > end THEN InvalidSpan(s, Min(start, Len(s)))
        ELSE IF end > Len(s) \/ start > Len(s)
        THEN InvalidSpan(s, Min(start, Len(s)))
        ELSE IF ~IsCharBoundary(s, start) \/ ~IsCharBoundary(s, end)
        THEN InvalidSpan(s, start)
        ELSE StrSlice(s, start, end)

----------------------------------------------------------------------------
(* usize arithmetic. *)

\* usize::MAX as far as the model needs it: TLC's integers are 32-bit, and the
\* code only compares a wrapped value with line indices
UsizeMax == 2147483647
Overflow == -1

\* a - b on usize: "attempt to subtract with overflow" in a debug build
\* (Overflow), wrapping in a release build
USub(a, b) ==
    IF a >= b THEN a - b
    ELSE IF build = "debug" THEN Overflow
    ELSE UsizeMax - (b - a) + 1

\* usize::saturating_sub
SaturatingSub(a, b) == IF a >= b THEN a - b ELSE 0

----------------------------------------------------------------------------
(* Lines. *)

\* the offset (1-based) of the first '\n' of s, 0 when there is none
FirstNewline(s) ==
    LET nls == {i \in 1..Len(s) : s[i] = "NL"}
    IN  IF nls = {} THEN 0
        ELSE CHOOSE i \in nls : \A j \in nls : i <= j

RECURSIVE LinesSplit(_)
\* str::split('\n'): as lines(), but a final empty piece is kept
LinesSplit(s) ==
    LET nl == FirstNewline(s)
    IN  IF nl = 0 THEN <<s>>
        ELSE <<SubSeq(s, 1, nl - 1)>> \o LinesSplit(SubSeq(s, nl + 1, Len(s)))

RECURSIVE Lines(_)
\* str::lines(): split at '\n'; a final empty piece is no line
Lines(s) ==
    IF s = <<>> THEN <<>>
    ELSE LET nl == FirstNewline(s)
         IN  IF nl = 0 THEN <<s>>
             ELSE <<SubSeq(s, 1, nl - 1)>> \o Lines(SubSeq(s, nl + 1, Len(s)))

RECURSIVE Join(_)
\* displayed_lines.join("\n")
Join(ls) ==
    IF ls = <<>> THEN <<>>
    ELSE IF Len(ls) = 1 THEN ls[1]
    ELSE ls[1] \o <<"NL">> \o Join(Tail(ls))

RECURSIVE TrimStart(_)
TrimStart(s) == IF s # <<>> /\ Head(s) = "SP" THEN TrimStart(Tail(s)) ELSE s
RECURSIVE TrimEnd(_)
TrimEnd(s) ==
    IF s # <<>> /\ s[Len(s)] = "SP" THEN TrimEnd(SubSeq(s, 1, Len(s) - 1)) ELSE s
\* str::trim()
Trim(s) == TrimEnd(TrimStart(s))

\* line.contains("function ") || ... || line.contains("enum ")
ContainsKeyword(line) ==
    \E i \in 1..(Len(line) - 1) : line[i] = "K" /\ line[i + 1] = "SP"

\* a block start that does not look for a keyword
is_block_start_any_brace(l) ==
    LET line == Trim(l)
    IN  line # <<>> /\ line[Len(line)] = "{"
is_block_start(l) ==
    LET line == Trim(l)
    IN  /\ line # <<>>
        /\ line[Len(line)] = "{"
        /\ ContainsKeyword(line)

\* format!("--- ({} lines omitted) ---", omitted), the dashes being the
\* three-byte box-drawing character U+2504: one display line
MarkerOffByOne(omitted) == <<"M(", ToString(omitted + 1), ")M">>
Marker(omitted) == <<"M(", ToString(omitted), ")M">>
IsMarker(line) == Len(line) = 3 /\ line[1] = "M(" /\ line[3] = ")M"

----------------------------------------------------------------------------
(* Truncation. *)

None == [some |-> FALSE]

calculate_relative_line_number(scope_text, scope_span, error_span) ==
    IF error_span.start < scope_span.start THEN [tag |-> "Ok", val |-> 0]
    ELSE LET offset_in_scope == error_span.start - scope_span.start
         IN  IF offset_in_scope >= Len(scope_text)
             THEN [tag |-> "Ok",
                   val |-> SaturatingSub(Len(Lines(scope_text)), 1)]
             ELSE LET prefix == StrSlice(scope_text, 0, offset_in_scope)
                  IN  IF prefix.tag = "Panic" THEN [tag |-> "Panic"]
                      ELSE [tag |-> "Ok", val |-> CountNewlines(prefix.val)]

\* the loop over from..to, which leaves the line at to out
PushRangeExclusive(lines, from, to) ==
    IF from >= to THEN <<>>
    ELSE LET last == Min(to - 1, Len(lines) - 1)
         IN  IF from > last THEN <<>> ELSE SubSeq(lines, from + 1, last + 1)
\* for i in from..=to { if i < lines.len() { push(lines[i]) } }
PushRange(lines, from, to) ==
    IF from > to THEN <<>>
    ELSE LET last == Min(to, Len(lines) - 1)
         IN  IF from > last THEN <<>> ELSE SubSeq(lines, from + 1, last + 1)

\* truncated_sections.push((1, context_start - 1))
SectionBefore(context_start) == <<1, context_start - 1>>

\* the section that counts the closing line as omitted
SectionAfterToLastLine(error_end, last_line_idx) ==
    <<error_end + 1, last_line_idx>>
\* truncated_sections.push((error_end + 1, last_line_idx - 1))
SectionAfter(error_end, last_line_idx) == <<error_end + 1, last_line_idx - 1>>

truncate_function_scope(lines, error_line, total_lines) ==
    IF lines = <<>> THEN [tag |-> "Panic"]                   \* lines[0]
    ELSE
    LET signature == <<lines[1]>>
        context_start == Max(SaturatingSub(error_line, 2), 1)
        before == context_start > 1
        error_start == SaturatingSub(error_line, 2)
        last_line_idx == USub(total_lines, 1)
        error_end == Min(error_line + 2, last_line_idx)
        window == PushRange(lines, error_start, error_end)
        last_but_one == USub(last_line_idx, 1)
        after == error_end < last_but_one
        closing == IF last_line_idx < Len(lines)
                   THEN <<lines[last_line_idx + 1]>> ELSE <<>>
        displayed_lines ==
            signature
            \o (IF before THEN <<Marker(context_start - 1)>> ELSE <<>>)
            \o window
            \o (IF after THEN <<Marker(last_line_idx - error_end - 1)>>
                ELSE <<>>)
            \o closing
        truncated_sections ==
            (IF before THEN <<SectionBefore(context_start)>> ELSE <<>>)
            \o (IF after THEN <<SectionAfter(error_end, last_line_idx)>>
                ELSE <<>>)
    IN  IF last_line_idx = Overflow \/ last_but_one = Overflow
        THEN [tag |-> "Panic"]
        ELSE [tag |-> "Ok",
              display |-> Join(displayed_lines),
              info |-> [some |-> TRUE,
                        original_line_count |-> total_lines,
                        displayed_line_count |-> Len(displayed_lines),
                        truncated_sections |-> truncated_sections]]

MAX_LINES_BEFORE == 3
MAX_LINES_AFTER == 3

RECURSIVE FindContextStartLoop(_, _, _)
FindContextStartLoop(lines, start, lines_seen) ==
    IF start > 0 /\ lines_seen < MAX_LINES_BEFORE
    THEN LET prev_line == start - 1
         IN  IF prev_line >= Len(lines) THEN [tag |-> "Panic"]
             ELSE LET line_content == Trim(lines[prev_line + 1])
                  IN  IF line_content = <<>> THEN [tag |-> "Ok", val |-> start]
                      ELSE IF Head(line_content) = "}"
                      THEN [tag |-> "Ok", val |-> prev_line]
                      ELSE FindContextStartLoop(lines, prev_line,
                                                lines_seen + 1)
    ELSE [tag |-> "Ok", val |-> start]

find_context_start(lines, error_line) ==
    FindContextStartLoop(lines, error_line, 0)

RECURSIVE FindContextEndLoop(_, _, _, _)
FindContextEndLoop(lines, end, lines_seen, total_lines) ==
    LET limit == USub(total_lines, 1)
    IN  IF limit = Overflow THEN [tag |-> "Panic"]
        ELSE IF end < limit /\ lines_seen < MAX_LINES_AFTER
        THEN LET next_line == end + 1
             IN  IF next_line >= Len(lines) THEN [tag |-> "Panic"]
                 ELSE LET line_content == Trim(lines[next_line + 1])
                      IN  IF line_content = <<>>
                          THEN [tag |-> "Ok", val |-> end]
                          ELSE IF is_block_start(line_content)
                          THEN [tag |-> "Ok", val |-> end]
                          ELSE FindContextEndLoop(lines, next_line,
                                                  lines_seen + 1, total_lines)
        ELSE [tag |-> "Ok", val |-> end]

find_context_end(lines, error_line, total_lines) ==
    FindContextEndLoop(lines, error_line, 0, total_lines)

\* a module-scope truncation that reports what it left out
truncate_module_scope_reporting(lines, error_line, total_lines) ==
    LET context_start == find_context_start(lines, error_line)
        context_end == find_context_end(lines, error_line, total_lines)
    IN  IF context_start.tag = "Panic" \/ context_end.tag = "Panic"
        THEN [tag |-> "Panic"]
        ELSE LET displayed_lines ==
                     PushRange(lines, context_start.val, context_end.val)
             IN  [tag |-> "Ok",
                  display |-> Join(displayed_lines),
                  info |-> IF Len(displayed_lines) < total_lines
                           THEN [some |-> TRUE,
                                 original_line_count |-> total_lines,
                                 displayed_line_count |-> Len(displayed_lines),
                                 truncated_sections |-> <<>>]
                           ELSE None]

truncate_module_scope(lines, error_line, total_lines) ==
    LET context_start == find_context_start(lines, error_line)
    IN  IF context_start.tag = "Panic" THEN [tag |-> "Panic"]
        ELSE
        LET context_end == find_context_end(lines, error_line, total_lines)
        IN  IF context_end.tag = "Panic" THEN [tag |-> "Panic"]
            ELSE [tag |-> "Ok",
                  display |-> Join(PushRange(lines, context_start.val,
                                             context_end.val)),
                  info |-> None]

TRUNCATE_AT_LINES == 15

apply_truncation(full_code, error_span, scope_span, scope_type) ==
    LET lines == Lines(full_code)
        line_count == Len(lines)
        error_line ==
            calculate_relative_line_number(full_code, scope_span, error_span)
    IN  IF error_line.tag = "Panic" THEN [tag |-> "Panic"]
        ELSE IF scope_type \in {"Function", "Method", "TypeUtility"}
        THEN IF line_count < TRUNCATE_AT_LINES
             THEN [tag |-> "Ok", display |-> full_code, info |-> None]
             ELSE truncate_function_scope(lines, error_line.val, line_count)
        ELSE truncate_module_scope(lines, error_line.val, line_count)

----------------------------------------------------------------------------
(* Scope location. *)

(* The parser's output, as far as ScopeFinder looks at it: the nodes with a  *)
(* visit method, in the order visit_program reaches them (pre-order, source  *)
(* order).  A node is [kind, name, span]; kind is "Function", "Class",       *)
(* "Method", "TypeAlias" or "Interface"; name is NoName for a function or    *)
(* class without id, and for a method the method_name computed from its key. *)
(* A child's span lies strictly inside its parent's, so                      *)
(* the ancestors of a node are the earlier nodes whose span encloses it.     *)
NoName == ""

\* oxc_span::Span::contains_inclusive
contains_inclusive(outer, inner) ==
    outer.start <= inner.start /\ inner.end <= outer.end

\* oxc_span::Span::size
size(sp) == sp.end - sp.start

NoResult == [some |-> FALSE]
SomeScope(sp, scope_type, name) ==
    [some |-> TRUE, span |-> sp, scope_type |-> scope_type, name |-> name]

\* if self.result.is_none() || self.result.unwrap().span.size() > span.size()
MoreSpecific(res, sp) == ~res.some \/ size(res.span) > size(sp)

\* visit_function without its early return
visit_function_unchecked(res, func, error_span) ==
    IF func.name # NoName /\ MoreSpecific(res, func.span)
    THEN SomeScope(func.span, "Function", func.name)
    ELSE res

visit_function(res, func, error_span) ==
    IF ~contains_inclusive(func.span, error_span) THEN res
    ELSE IF func.name # NoName /\ MoreSpecific(res, func.span)
    THEN SomeScope(func.span, "Function", func.name)
    ELSE res

visit_class(res, class, error_span) ==
    IF ~contains_inclusive(class.span, error_span) THEN res
    ELSE IF class.name # NoName /\ MoreSpecific(res, class.span)
    THEN SomeScope(class.span, "Method", class.name)
    ELSE res

visit_method_definition(res, method, error_span) ==
    IF ~contains_inclusive(method.span, error_span) THEN res
    ELSE LET full_name ==
                 IF res.some /\ contains_inclusive(res.span, method.span)
                 THEN res.name \o "::" \o method.name
                 ELSE method.name
         IN  SomeScope(method.span, "Method", full_name)

visit_ts_type_alias_declaration(res, decl, error_span) ==
    IF ~contains_inclusive(decl.span, error_span) THEN res
    ELSE IF MoreSpecific(res, decl.span)
    THEN SomeScope(decl.span, "TypeUtility", decl.name)
    ELSE res

visit_ts_interface_declaration(res, decl, error_span) ==
    IF ~contains_inclusive(decl.span, error_span) THEN res
    ELSE IF MoreSpecific(res, decl.span)
    THEN SomeScope(decl.span, "TypeUtility", decl.name)
    ELSE res

VisitNode(res, node, error_span) ==
    CASE node.kind = "Function" -> visit_function(res, node, error_span)
      [] node.kind = "Class" -> visit_class(res, node, error_span)
      [] node.kind = "Method" ->
             visit_method_definition(res, node, error_span)
      [] node.kind = "TypeAlias" ->
             visit_ts_type_alias_declaration(res, node, error_span)
      [] node.kind = "Interface" ->
             visit_ts_interface_declaration(res, node, error_span)

\* the nodes the walk descends through before it reaches node i
Ancestors(tree, i) ==
    {j \in 1..(i - 1) :
        /\ tree[j].span.start < tree[i].span.start
        /\ tree[i].span.end < tree[j].span.end}

\* a visit method that returns early does not walk into its node: node i is
\* visited when every node above it contains the error span
Reached(tree, i, error_span) ==
    \A j \in Ancestors(tree, i) : contains_inclusive(tree[j].span, error_span)

RECURSIVE Walk(_, _, _, _)
\* finder.visit_program(&parse_result.program), from node i on
Walk(tree, i, res, error_span) ==
    IF i > Len(tree) THEN res
    ELSE IF Reached(tree, i, error_span)
         THEN Walk(tree, i + 1, VisitNode(res, tree[i], error_span),
                   error_span)
         ELSE Walk(tree, i + 1, res, error_span)

find_containing_scope(src, error_span, tree) ==
    LET found == Walk(tree, 1, NoResult, error_span)
    IN  IF found.some
        THEN [tag |-> "Ok", span |-> found.span,
              scope_type |-> found.scope_type, name |-> found.name]
        ELSE [tag |-> "Ok", span |-> [start |-> 0, end |-> Len(src)],
              scope_type |-> "ModuleLevel", name |-> "global"]

----------------------------------------------------------------------------
(* The entry point. *)

extract_code_context(src, error_span, tree) ==
    IF error_span.end > Len(src) THEN InvalidSpan(src, error_span.start)
    ELSE
    LET scope_info == find_containing_scope(src, error_span, tree)
        scope_span == scope_info.span
        full_code == extract_span_text(src, scope_span)
    IN  IF full_code.tag # "Ok" THEN full_code
        ELSE
        LET truncated == apply_truncation(full_code.val, error_span,
                                          scope_span, scope_info.scope_type)
        IN  IF truncated.tag = "Panic" THEN [tag |-> "Panic"]
            ELSE [tag |-> "Ok",
                  full_code |-> full_code.val,
                  display_code |-> truncated.display,
                  scope_type |-> scope_info.scope_type,
                  scope_name |-> scope_info.name,
                  truncation_info |-> truncated.info]

----------------------------------------------------------------------------
(* Position and extraction calls on arbitrary texts and spans. *)

TextChars == {CharA, CharNL, CharE}
Texts == StringsUpTo(TextChars, MaxChars)
Offsets(s) == 0..(Len(s) + OffsetSlack)
Spans(s) == [start : Offsets(s), end : Offsets(s)]

NoScope == [span |-> [start |-> 0, end |-> 0], scope_type |-> "ModuleLevel"]

InitText ==
    /\ source \in Texts
    /\ span \in Spans(source)
    /\ scope = NoScope
    /\ ast = <<>>
    /\ build \in {"debug", "release"}
    /\ op = "none"
    /\ result = [tag |-> "None"]
    /\ annotations = <<>>
    /\ diagnostics = <<>>
    /\ visitor = NewVisitor
    /\ highlighted = NoCode
    /\ watcher = NoWatcher

CallExtractSpanText ==
    /\ op = "none"
    /\ op' = "extract_span_text"
    /\ result' = extract_span_text(source, span)
    /\ UNCHANGED idle

CallCalculateLineNumber ==
    /\ op = "none"
    /\ op' = "calculate_line_number"
    /\ result' = calculate_line_number(source, span.start)
    /\ UNCHANGED idle

CallCalculateColumnNumber ==
    /\ op = "none"
    /\ op' = "calculate_column_number"
    /\ result' = calculate_column_number(source, span.start)
    /\ UNCHANGED idle

NextText ==
    \/ CallExtractSpanText
    \/ CallCalculateLineNumber
    \/ CallCalculateColumnNumber

SpecText == InitText /\ [][NextText]_vars

\* offset i of s lies between two characters: the byte before it is not the
\* lead byte of a two-byte character
BetweenChars(s, i) == i = 0 \/ (i <= Len(s) /\ s[i] # "E1")

\* C3: extract_span_text returns exactly source[start..end] when
\* start <= end <= len(source) and both offsets are on character boundaries,
\* and Err(InvalidSpan) in every other case; the string returned is never
\* longer than the source, and the call never panics.
C3_ExtractSpanText ==
    op = "extract_span_text" =>
        IF /\ span.start <= span.end
           /\ span.end <= Len(source)
           /\ BetweenChars(source, span.start)
           /\ BetweenChars(source, span.end)
        THEN /\ result.tag = "Ok"
             /\ result.val = [i \in 1..(span.end - span.start) |->
                                  source[span.start + i]]
             /\ Len(result.val) <= Len(source)
        ELSE result.tag = "Err"

\* an in-bounds, ordered span whose end is inside a two-byte character
C3_Witness ==
    /\ op = "extract_span_text"
    /\ span.start < span.end
    /\ span.end < Len(source)
    /\ source[span.end] = "E1"
    /\ result.tag = "Err"

\* C4: for every string and every offset (0, beyond the length, inside a
\* multi-byte character) calculate_line_number and calculate_column_number
\* return a value >= 1 and do not panic.
C4_LineAndColumnAtLeastOne ==
    op \in {"calculate_line_number", "calculate_column_number"} =>
        result.tag = "Ok" /\ result.val >= 1

\* the column of an offset inside a two-byte character
C4_Witness ==
    /\ op = "calculate_column_number"
    /\ span.start > 0
    /\ span.start < Len(source)
    /\ source[span.start] = "E1"
    /\ result.tag = "Ok"

----------------------------------------------------------------------------
(* apply_truncation on scope texts. *)

ScopeTypes == {"Function", "Method", "TypeUtility", "ModuleLevel"}

\* the lines short texts are made of: empty, blank, code, a closing brace,
\* a block start ("function {"), a brace with no keyword, a two-byte character
LineVocab ==
    {<<>>, CharSP, CharA, CharRB, CharK \o CharSP \o CharLB,
     CharA \o CharLB, CharE}

RECURSIVE LineSeqs(_, _)
\* the sequences of 1..n lines of the vocabulary v
LineSeqs(v, n) ==
    IF n = 0 THEN {}
    ELSE LET shorter == LineSeqs(v, n - 1)
         IN  {<<l>> : l \in v} \cup shorter
             \cup {ls \o <<l>> : ls \in shorter, l \in v}

\* every text of at most MaxVocabLines vocabulary lines, with and without a
\* final newline, and the empty text
VocabTexts ==
    {<<>>} \cup {Join(ls) : ls \in LineSeqs(LineVocab, MaxVocabLines)}
           \cup {Join(ls) \o CharNL : ls \in LineSeqs(LineVocab, MaxVocabLines)}

\* long texts: n code lines, at most one of them replaced by a special line
\* (empty, a closing brace, a two-byte character, a block start)
SpecialLines == {<<>>, CharRB, CharE, CharK \o CharSP \o CharLB}
LongText(n, p, special) ==
    Join([i \in 1..n |-> IF i = p THEN special ELSE CharA])
LongTexts ==
    {LongText(n, p, special) :
        n \in 1..MaxLongLines, p \in 0..MaxLongLines, special \in SpecialLines}

TruncTexts == VocabTexts \cup LongTexts

InitTrunc ==
    /\ source \in TruncTexts
    /\ scope \in {[span |-> [start |-> s0, end |-> s0 + Len(source)],
                   scope_type |-> t] :
                     s0 \in 0..MaxScopeStart, t \in ScopeTypes}
    /\ span \in {[start |-> e, end |-> e] :
                     e \in 0..(scope.span.end + OffsetSlack)}
    /\ ast = <<>>
    /\ build \in {"debug", "release"}
    /\ op = "none"
    /\ result = [tag |-> "None"]
    /\ annotations = <<>>
    /\ diagnostics = <<>>
    /\ visitor = NewVisitor
    /\ highlighted = NoCode
    /\ watcher = NoWatcher

CallApplyTruncation ==
    /\ op = "none"
    /\ op' = "apply_truncation"
    /\ result' = apply_truncation(source, span, scope.span, scope.scope_type)
    /\ UNCHANGED idle

NextTrunc == CallApplyTruncation

SpecTrunc == InitTrunc /\ [][NextTrunc]_vars

----------------------------------------------------------------------------
(* find_containing_scope on parsed sources. *)

\* the declarations that can stand directly inside a node of a kind
\* ("Program" for the top level); classes hold methods
KindsUnder(parent) ==
    IF parent = "Class" THEN {"Method"}
    ELSE IF parent \in {"TypeAlias", "Interface"} THEN {}
    ELSE {"Function", "Class", "TypeAlias", "Interface"}

\* functions and classes are declared with or without an id
NamedChoices(kind) ==
    IF kind \in {"Function", "Class"} THEN {TRUE, FALSE} ELSE {TRUE}

RECURSIVE Forests(_, _, _, _)
\* the sequences of at most budget nodes, siblings in source order (the next
\* one starts where the previous one ends, or later), each followed by its
\* descendants, that fit in the bytes lo..hi under a node of kind parent
Forests(lo, hi, budget, parent) ==
    IF budget = 0 \/ hi <= lo THEN {<<>>}
    ELSE {<<>>} \cup UNION {
        UNION {
            UNION {
                UNION {
                    {<<[kind |-> k, named |-> nm,
                        span |-> [start |-> sp[1], end |-> sp[2]]]>>
                     \o kids \o rest :
                        rest \in Forests(sp[2], hi, budget - 1 - Len(kids),
                                         parent)} :
                    kids \in Forests(sp[1] + 1, sp[2] - 1, budget - 1, k)} :
                sp \in {x \in (lo..hi) \X (lo..hi) : x[1] < x[2]}} :
            nm \in NamedChoices(k)} :
        k \in KindsUnder(parent)}

KindLetter(kind) ==
    CASE kind = "Function" -> "f"
      [] kind = "Class" -> "C"
      [] kind = "Method" -> "m"
      [] kind = "TypeAlias" -> "T"
      [] kind = "Interface" -> "I"

\* the i-th node is named after its kind and its place: "C1", "m2", ...
WithNames(forest) ==
    [i \in 1..Len(forest) |->
        [kind |-> forest[i].kind,
         name |-> IF forest[i].named
                  THEN KindLetter(forest[i].kind) \o ToString(i)
                  ELSE NoName,
         span |-> forest[i].span]]

\* the trees the parser can return for a source of len bytes
Trees(len) ==
    IF len > MaxSourceLen THEN {}
    ELSE {WithNames(f) : f \in Forests(0, len, MaxNodes, "Program")}

\* a class, with or without id, and at most MaxMembers nodes inside it
ClassTrees(len) ==
    IF len > MaxClassLen THEN {}
    ELSE UNION {
        {WithNames(<<[kind |-> "Class", named |-> nm,
                      span |-> [start |-> sp[1], end |-> sp[2]]]>> \o kids) :
            kids \in Forests(sp[1] + 1, sp[2] - 1, MaxMembers, "Class")} :
        nm \in BOOLEAN,
        sp \in {x \in (0..len) \X (0..len) : x[1] < x[2]}}

\* a class, with or without id, that holds one method and stands in a
\* function (5 bytes) or in a method of a named class (7 bytes)
NestedTrees(len) ==
    IF len = 5
    THEN {WithNames(<<[kind |-> "Function", named |-> fn,
                       span |-> [start |-> 0, end |-> 5]],
                      [kind |-> "Class", named |-> nm,
                       span |-> [start |-> 1, end |-> 4]],
                      [kind |-> "Method", named |-> TRUE,
                       span |-> [start |-> 2, end |-> 3]]>>) :
             fn \in BOOLEAN, nm \in BOOLEAN}
    ELSE IF len = 7
    THEN {WithNames(<<[kind |-> "Class", named |-> TRUE,
                       span |-> [start |-> 0, end |-> 7]],
                      [kind |-> "Method", named |-> TRUE,
                       span |-> [start |-> 1, end |-> 6]],
                      [kind |-> "Class", named |-> nm,
                       span |-> [start |-> 2, end |-> 5]],
                      [kind |-> "Method", named |-> TRUE,
                       span |-> [start |-> 3, end |-> 4]]>>) :
             nm \in BOOLEAN}
    ELSE {}

\* a source of len code bytes
CodeOfLen(len) == [i \in 1..len |-> "a"]

InitScope ==
    /\ source \in {CodeOfLen(len) :
                       len \in 0..Max(MaxSourceLen, MaxClassLen) \cup {5, 7}}
    /\ ast \in Trees(Len(source)) \cup ClassTrees(Len(source))
                                 \cup NestedTrees(Len(source))
    /\ span \in [start : Offsets(source), end : 0..Len(source)]
    /\ scope = NoScope
    /\ build = "release"
    /\ op = "none"
    /\ result = [tag |-> "None"]
    /\ annotations = <<>>
    /\ diagnostics = <<>>
    /\ visitor = NewVisitor
    /\ highlighted = NoCode
    /\ watcher = NoWatcher

CallFindContainingScope ==
    /\ op = "none"
    /\ op' = "find_containing_scope"
    /\ result' = find_containing_scope(source, span, ast)
    /\ UNCHANGED idle

NextScope == CallFindContainingScope

SpecScope == InitScope /\ [][NextScope]_vars

\* scope.start <= diag.start and diag.end <= scope.end
Encloses(outer, inner) ==
    outer.start <= inner.start /\ inner.end <= outer.end
Width(sp) == sp.end - sp.start

\* the declared scopes: methods, type aliases, interfaces, and the functions
\* and classes that have a name
Declared(node) == node.name # NoName
DeclaredAround(sp) ==
    {i \in 1..Len(ast) : Declared(ast[i]) /\ Encloses(ast[i].span, sp)}

\* the innermost node the walk passes on its way to node i, 0 at top level
Parent(i) ==
    IF Ancestors(ast, i) = {} THEN 0
    ELSE CHOOSE j \in Ancestors(ast, i) : \A k \in Ancestors(ast, i) : k <= j

\* C5: when the diagnostic span lies in a declared scope, the scope returned
\* contains it and no declared scope that contains it is strictly narrower.
C5_SmallestScopeWins ==
    /\ op = "find_containing_scope"
    /\ span.start <= span.end
    /\ DeclaredAround(span) # {}
    => /\ result.tag = "Ok"
       /\ Encloses(result.span, span)
       /\ \A i \in DeclaredAround(span) :
              Width(ast[i].span) >= Width(result.span)

\* the methods of a named class that contain the diagnostic span and have
\* no node inside them that contains it too
MethodsAround(sp) ==
    {i \in 1..Len(ast) :
        /\ ast[i].kind = "Method"
        /\ Encloses(ast[i].span, sp)
        /\ Parent(i) # 0
        /\ ast[Parent(i)].kind = "Class"
        /\ ast[Parent(i)].name # NoName
        /\ \A j \in 1..Len(ast) :
               i \in Ancestors(ast, j) => ~Encloses(ast[j].span, sp)}

\* C6: a diagnostic in a method m of a named class C resolves to the method,
\* with scope_type Method and the name "C::m".
C6_MethodOfNamedClass ==
    /\ op = "find_containing_scope"
    /\ span.start <= span.end
    /\ MethodsAround(span) # {}
    => /\ result.tag = "Ok"
       /\ \E i \in MethodsAround(span) :
              /\ result.span = ast[i].span
              /\ result.scope_type = "Method"
              /\ result.name = ast[Parent(i)].name \o "::" \o ast[i].name

\* C7: when no declared scope contains the diagnostic span,
\* find_containing_scope returns the module-level scope: ModuleLevel,
\* "global", spanning the whole file; it returns no error.
C7_ModuleLevelFallback ==
    op = "find_containing_scope" /\ DeclaredAround(span) = {} =>
        /\ result.tag = "Ok"
        /\ result.scope_type = "ModuleLevel"
        /\ result.name = "global"
        /\ result.span = [start |-> 0, end |-> Len(source)]

\* the source declares a named scope and a function without id; the span is
\* inside the function without id and outside the named scope
C7_Witness ==
    /\ op = "find_containing_scope"
    /\ span.start <= span.end
    /\ DeclaredAround(span) = {}
    /\ \E i \in 1..Len(ast) : Declared(ast[i])
    /\ \E i \in 1..Len(ast) :
           /\ ast[i].kind = "Function"
           /\ ~Declared(ast[i])
           /\ Encloses(ast[i].span, span)
    /\ result.scope_type = "ModuleLevel"

----------------------------------------------------------------------------
(* extract_code_context on sources with multi-byte characters. *)

\* the parser puts every node on character boundaries
ParsedTrees(s) ==
    {<<>>} \cup
    {tree \in Trees(Len(s)) :
        \A i \in 1..Len(tree) :
            /\ IsCharBoundary(s, tree[i].span.start)
            /\ IsCharBoundary(s, tree[i].span.end)}

InitContext ==
    /\ source \in Texts
    /\ ast \in ParsedTrees(source)
    /\ span \in Spans(source)
    /\ scope = NoScope
    /\ build \in {"debug", "release"}
    /\ op = "none"
    /\ result = [tag |-> "None"]
    /\ annotations = <<>>
    /\ diagnostics = <<>>
    /\ visitor = NewVisitor
    /\ highlighted = NoCode
    /\ watcher = NoWatcher

CallExtractCodeContext ==
    /\ op = "none"
    /\ op' = "extract_code_context"
    /\ result' = extract_code_context(source, span, ast)
    /\ UNCHANGED idle

NextContext == CallExtractCodeContext

SpecContext == InitContext /\ [][NextContext]_vars

\* C1: for every source, the empty one included, and every error span,
\* extract_code_context returns Ok(CodeContext) or Err(InvalidSpan); it
\* never panics.
C1_NeverPanics ==
    op = "extract_code_context" => result.tag \in {"Ok", "Err"}

\* a span that is inverted, out of bounds, or off a character boundary
Malformed(s, sp) ==
    \/ sp.start > sp.end
    \/ sp.start > Len(s)
    \/ sp.end > Len(s)
    \/ ~IsCharBoundary(s, sp.start)
    \/ ~IsCharBoundary(s, sp.end)

\* C2: extract_code_context returns Err(InvalidSpan) whenever the error span
\* is inverted, out of bounds, or has an offset off a character boundary.
C2_MalformedSpanIsRejected ==
    /\ op = "extract_code_context"
    /\ Malformed(source, span)
    /\ result.tag # "Panic"
    => result.tag = "Err"

SizedScopeTypes == {"Function", "Method", "TypeUtility"}

\* C8: for Function, Method and TypeUtility scopes apply_truncation returns
\* the text unchanged and no TruncationInfo when the text has fewer than 15
\* lines, and returns a TruncationInfo when it has 15 lines or more, for
\* every position of the error span.
C8_TruncationThreshold ==
    op = "apply_truncation" /\ scope.scope_type \in SizedScopeTypes =>
        IF Len(Lines(source)) < 15
        THEN /\ result.tag = "Ok"
             /\ result.display = source
             /\ result.info = None
        ELSE /\ result.tag = "Ok"
             /\ result.info.some

C10_DisplayNeverEmpty ==
    op = "apply_truncation" /\ source # <<>> /\ result.tag = "Ok" =>
        result.display # <<>>

----------------------------------------------------------------------------
(* The TruncationInfo and the display of a truncated Function, Method or
   TypeUtility text. *)

\* the number of lines of a text: one per '\n', and one more for a last line
\* that no '\n' ends
TrueLineCount(s) ==
    IF s = <<>> THEN 0
    ELSE CountNewlines(s) + (IF s[Len(s)] = "NL" THEN 0 ELSE 1)

\* C11: whenever apply_truncation returns a TruncationInfo,
\* displayed_line_count <= original_line_count, and original_line_count is
\* the true number of lines of the input text.
C11_LineCounts ==
    op = "apply_truncation" /\ result.tag = "Ok" /\ result.info.some =>
        /\ result.info.displayed_line_count <= result.info.original_line_count
        /\ result.info.original_line_count = TrueLineCount(source)

\* a TruncationInfo for a text whose last line ends with a newline
C11_Witness ==
    /\ op = "apply_truncation"
    /\ result.tag = "Ok"
    /\ result.info.some
    /\ source[Len(source)] = "NL"
    /\ result.info.displayed_line_count < result.info.original_line_count

\* the 0-indexed line of the text the error starts on, as spec section 4.4
\* words it: 0 for an error before the scope, the last line for one at or
\* beyond the end of the text
ErrorLine ==
    LET rel == span.start - scope.span.start
    IN  IF rel < 0 THEN 0
        ELSE IF rel >= Len(source) THEN Max(TrueLineCount(source) - 1, 0)
        ELSE Cardinality({i \in 1..rel : source[i] = "NL"})

LastLine == TrueLineCount(source) - 1

\* a call of apply_truncation on a Function, Method or TypeUtility text of 15
\* lines or more that returned
TruncatedLong ==
    /\ op = "apply_truncation"
    /\ scope.scope_type \in SizedScopeTypes
    /\ TrueLineCount(source) >= 15
    /\ result.tag = "Ok"

DisplayLines == Lines(result.display)
MarkerAt(i, n) == DisplayLines[i] = <<"M(", ToString(n), ")M">>

\* the error window keeps clear of the signature line and of the final line
WindowInside == ErrorLine - 2 >= 2 /\ ErrorLine + 2 <= LastLine - 2

\* C12: for a function-scope text of 15 lines or more whose error window
\* leaves at least one line between the signature line and the window and at
\* least one between the window and the final line, the display has exactly
\* two omission markers, one before and one after the 5-line window,
\* truncated_sections has exactly 2 entries, and the two N of the markers sum
\* to original_line_count minus the number of non-marker lines displayed.
C12_TwoMarkers ==
    TruncatedLong /\ WindowInside =>
        /\ result.info.some
        /\ {i \in 1..Len(DisplayLines) : IsMarker(DisplayLines[i])} = {2, 8}
        /\ Len(DisplayLines) = 9
        /\ Len(result.info.truncated_sections) = 2
        /\ \E n1, n2 \in 0..TrueLineCount(source) :
               /\ MarkerAt(2, n1)
               /\ MarkerAt(8, n2)
               /\ n1 + n2 = result.info.original_line_count
                              - (Len(DisplayLines) - 2)

\* a 16-line text with the error on its eighth line
C12_Witness ==
    /\ TruncatedLong
    /\ WindowInside
    /\ TrueLineCount(source) = 16
    /\ ErrorLine = 7

----------------------------------------------------------------------------
(* ErrorAnnotation (error_annotations.rs): the positions derived from the
   span, and the renderings.  An annotation is [span, message]; the escape
   code of its severity's colour is the one byte class "CODE", the reset code
   "RESET", and the message the one class named by the annotation. *)

\* source[..offset].chars().filter(|&c| c == '\n').count() + 1
LineOfPrefix(s, offset) ==
    LET prefix == StrSlice(s, 0, offset)
    IN  IF prefix.tag = "Panic" THEN [tag |-> "Panic"]
        ELSE [tag |-> "Ok", val |-> CountNewlines(prefix.val) + 1]

\* source[line_start..offset].chars().count() + 1, line_start following the
\* last '\n' of source[..offset]
ColumnOfPrefix(s, offset) ==
    LET prefix == StrSlice(s, 0, offset)
    IN  IF prefix.tag = "Panic" THEN [tag |-> "Panic"]
        ELSE LET piece == StrSlice(s, LineStart(prefix.val), offset)
             IN  IF piece.tag = "Panic" THEN [tag |-> "Panic"]
                 ELSE [tag |-> "Ok", val |-> CountChars(piece.val) + 1]

\* line() with the start clamped to the source instead of the bounds check
ErrorAnnotation_line_clamped(s, sp) == LineOfPrefix(s, Min(sp.start, Len(s)))
ErrorAnnotation_line(s, sp) ==
    IF sp.start > Len(s) THEN [tag |-> "Panic"]
    ELSE LineOfPrefix(s, sp.start)

ErrorAnnotation_column(s, sp) ==
    IF sp.start > Len(s) THEN [tag |-> "Panic"]
    ELSE ColumnOfPrefix(s, sp.start)

ErrorAnnotation_end_line(s, sp) ==
    IF sp.end > Len(s) THEN [tag |-> "Panic"]
    ELSE LineOfPrefix(s, sp.end)

ErrorAnnotation_end_column(s, sp) ==
    IF sp.end > Len(s) THEN [tag |-> "Panic"]
    ELSE ColumnOfPrefix(s, sp.end)

\* n times the byte c
Repeat(c, n) == [i \in 1..n |-> c]

\* the carets of the underline, one for a length of 0
CaretsUnpadded(underline_length) == Repeat("^", underline_length)
\* for _ in 0..underline_length.max(1) { underline.push('^') }
Carets(underline_length) == Repeat("^", Max(underline_length, 1))

\* ErrorAnnotation::render_console.  An underline length that wrapped around
\* (release build) asks for more carets than memory holds: the process is
\* aborted, [tag |-> "Abort"].
render_console(s, annotation) ==
    LET sp == annotation.span
        line_num == ErrorAnnotation_line(s, sp)
        col == ErrorAnnotation_column(s, sp)
        end_col == ErrorAnnotation_end_column(s, sp)
        end_line == ErrorAnnotation_end_line(s, sp)
    IN  IF line_num.tag = "Panic" \/ col.tag = "Panic"
           \/ end_col.tag = "Panic" \/ end_line.tag = "Panic"
        THEN [tag |-> "Panic"]
        ELSE
        LET lines == Lines(s)
            error_line == IF line_num.val > 0 /\ line_num.val <= Len(lines)
                          THEN lines[line_num.val] ELSE <<>>
            underline_start == col.val - 1
            underline_length ==
                IF line_num.val = end_line.val
                THEN USub(end_col.val, col.val)
                ELSE USub(CountChars(error_line), underline_start)
        IN  IF underline_length = Overflow THEN [tag |-> "Panic"]
            ELSE IF underline_length > Len(s) + 1 THEN [tag |-> "Abort"]
            ELSE [tag |-> "Ok",
                  val |-> error_line \o <<"NL">>
                          \o Repeat("SP", underline_start) \o <<"CODE">>
                          \o Carets(underline_length) \o <<"RESET">>
                          \o <<"NL">>
                          \o <<"CODE", annotation.message>> \o <<"NL">>]

\* html_escape::encode_text: the bytes & < > are replaced by entities
EncodeByte(b) ==
    CASE b = "&" -> "&amp;"
      [] b = "<" -> "&lt;"
      [] b = ">" -> "&gt;"
      [] OTHER -> b
encode_text(text) == [i \in 1..Len(text) |-> EncodeByte(text[i])]

\* ErrorAnnotation::render_html: the fragment for error_id, its parts in the
\* order of the format string
render_html(s, annotation, error_id) ==
    LET start == annotation.span.start
        end == annotation.span.end
    IN  IF start > Len(s) \/ end > Len(s) THEN [tag |-> "Ok", val |-> <<>>]
        ELSE LET error_text == StrSlice(s, start, end)
             IN  IF error_text.tag = "Panic" THEN [tag |-> "Panic"]
                 ELSE [tag |-> "Ok",
                       val |-> <<"SPAN(", ToString(error_id), ")">>
                               \o encode_text(error_text.val)
                               \o <<"/SPAN", "DIV(", ToString(error_id), ")",
                                    annotation.message, "/DIV">>]

RECURSIVE RenderErrorsConsoleLoop(_, _, _)
\* for annotation in annotations { output.push_str(..); output.push('\n') }
RenderErrorsConsoleLoop(s, anns, output) ==
    IF anns = <<>> THEN [tag |-> "Ok", val |-> output]
    ELSE LET rendered == render_console(s, Head(anns))
         IN  IF rendered.tag # "Ok" THEN rendered
             ELSE RenderErrorsConsoleLoop(s, Tail(anns),
                                          output \o rendered.val \o <<"NL">>)

RECURSIVE Deduplicated(_)
\* the list without the annotations whose span the next one repeats
Deduplicated(anns) ==
    IF Len(anns) < 2 THEN anns
    ELSE IF anns[1].span = anns[2].span THEN Deduplicated(Tail(anns))
    ELSE <<anns[1]>> \o Deduplicated(Tail(anns))

\* the rendering that shows one block for annotations of one span
render_errors_console_deduplicated(s, anns) ==
    RenderErrorsConsoleLoop(s, Deduplicated(anns), <<>>)
render_errors_console(s, anns) == RenderErrorsConsoleLoop(s, anns, <<>>)

RECURSIVE RenderErrorsHtmlLoop(_, _, _, _)
\* for (idx, annotation) in annotations.iter().enumerate()
\*     { html_map.insert(idx + 1, annotation.render_html(source, idx + 1)) }
RenderErrorsHtmlLoop(s, anns, idx, html_map) ==
    IF idx >= Len(anns) THEN [tag |-> "Ok", val |-> html_map]
    ELSE LET error_id == idx + 1
             fragment == render_html(s, anns[idx + 1], error_id)
         IN  IF fragment.tag # "Ok" THEN fragment
             ELSE RenderErrorsHtmlLoop(s, anns, idx + 1,
                      [id \in DOMAIN html_map \cup {error_id} |->
                          IF id = error_id THEN fragment.val
                          ELSE html_map[id]])

\* HashMap::new(): the map with no key
EmptyMap == [id \in {} |-> <<>>]

render_errors_html(s, anns) == RenderErrorsHtmlLoop(s, anns, 0, EmptyMap)

----------------------------------------------------------------------------
(* Calls on annotations: one annotation over every text, lists of
   annotations over two texts. *)

MaxAnnotations == 2

\* a text of two lines, and a text that starts with a two-byte character
ListTexts == {CharA \o CharNL \o CharA, CharE \o CharA}

\* the i-th annotation of a list carries the message "m<i>"
MessageOf(i) == "m" \o ToString(i)

RECURSIVE AnnotationLists(_, _)
\* the lists of 1..n annotations over the spans sps
AnnotationLists(sps, n) ==
    IF n = 0 THEN {}
    ELSE LET shorter == AnnotationLists(sps, n - 1)
         IN  {<<[span |-> sp, message |-> MessageOf(1)]>> : sp \in sps}
             \cup shorter
             \cup {l \o <<[span |-> sp, message |-> MessageOf(Len(l) + 1)]>> :
                      l \in {x \in shorter : Len(x) = n - 1}, sp \in sps}

\* the spans of a list: offsets up to one beyond the text
ListSpans(s) == [start : 0..(Len(s) + 1), end : 0..(Len(s) + 1)]

\* the annotation the single calls are made on
TheAnnotation == [span |-> span, message |-> MessageOf(1)]

InitAnnot ==
    /\ \/ /\ source \in Texts
          /\ span \in Spans(source)
          /\ annotations = <<>>
       \/ /\ source \in ListTexts
          /\ annotations \in AnnotationLists(ListSpans(source), MaxAnnotations)
          /\ span = annotations[1].span
    /\ scope = NoScope
    /\ ast = <<>>
    /\ build \in {"debug", "release"}
    /\ op = "none"
    /\ result = [tag |-> "None"]
    /\ diagnostics = <<>>
    /\ visitor = NewVisitor
    /\ highlighted = NoCode
    /\ watcher = NoWatcher

CallLine ==
    /\ op = "none"
    /\ op' = "line"
    /\ result' = ErrorAnnotation_line(source, span)
    /\ UNCHANGED idle

CallColumn ==
    /\ op = "none"
    /\ op' = "column"
    /\ result' = ErrorAnnotation_column(source, span)
    /\ UNCHANGED idle

CallEndLine ==
    /\ op = "none"
    /\ op' = "end_line"
    /\ result' = ErrorAnnotation_end_line(source, span)
    /\ UNCHANGED idle

CallEndColumn ==
    /\ op = "none"
    /\ op' = "end_column"
    /\ result' = ErrorAnnotation_end_column(source, span)
    /\ UNCHANGED idle

CallRenderConsole ==
    /\ op = "none"
    /\ op' = "render_console"
    /\ result' = render_console(source, TheAnnotation)
    /\ UNCHANGED idle

CallRenderHtml ==
    /\ op = "none"
    /\ op' = "render_html"
    /\ result' = render_html(source, TheAnnotation, 1)
    /\ UNCHANGED idle

CallRenderErrorsConsole ==
    /\ op = "none"
    /\ op' = "render_errors_console"
    /\ result' = render_errors_console(source, annotations)
    /\ UNCHANGED idle

CallRenderErrorsHtml ==
    /\ op = "none"
    /\ op' = "render_errors_html"
    /\ result' = render_errors_html(source, annotations)
    /\ UNCHANGED idle

NextAnnot ==
    \/ CallLine
    \/ CallColumn
    \/ CallEndLine
    \/ CallEndColumn
    \/ CallRenderConsole
    \/ CallRenderHtml
    \/ CallRenderErrorsConsole
    \/ CallRenderErrorsHtml

SpecAnnot == InitAnnot /\ [][NextAnnot]_vars

\* C13: ErrorAnnotation.line and .column panic whenever span.start >
\* len(source), and end_line and end_column whenever span.end > len(source);
\* for such a span none of them returns a line or column value.
C13_OutOfBoundsPanics ==
    /\ op \in {"line", "column"} /\ span.start > Len(source)
           => result.tag = "Panic"
    /\ op \in {"end_line", "end_column"} /\ span.end > Len(source)
           => result.tag = "Panic"

\* line() called with a start beyond a text that has a newline
C13_Witness ==
    /\ op = "line"
    /\ span.start > Len(source)
    /\ CountNewlines(source) > 0
    /\ result.tag = "Panic"

\* the 1-based line of offset o of s: one more than the '\n' before o
LineOfOffset(s, o) == 1 + Cardinality({i \in 1..o : s[i] = "NL"})

\* the 1-based column of offset o of s: one more than the characters between
\* the start of o's line and o
ColumnOfOffset(s, o) ==
    1 + Cardinality({i \in 1..o : /\ s[i] \notin {"NL", "E2"}
                                  /\ \A j \in i..o : s[j] # "NL"})

\* an annotation inside the source, its two offsets between characters, that
\* starts and ends on one line and does not end before it starts
OneLineAnnotation ==
    /\ span.start <= Len(source) /\ span.end <= Len(source)
    /\ BetweenChars(source, span.start) /\ BetweenChars(source, span.end)
    /\ LineOfOffset(source, span.start) = LineOfOffset(source, span.end)
    /\ ColumnOfOffset(source, span.start) <= ColumnOfOffset(source, span.end)

\* C14: for an in-bounds annotation that starts and ends on the same line,
\* with 1-based start column c and end column e (e >= c), the underline of
\* render_console is exactly c - 1 spaces, then the colour escape code, then
\* exactly max(e - c, 1) '^' characters: a zero-width span gets one '^'.
C14_Underline ==
    op = "render_console" /\ OneLineAnnotation =>
        LET c == ColumnOfOffset(source, span.start)
            e == ColumnOfOffset(source, span.end)
        IN  /\ result.tag = "Ok"
            /\ Lines(result.val)[2] =
                   [i \in 1..(c - 1) |-> "SP"] \o <<"CODE">>
                   \o [i \in 1..Max(e - c, 1) |-> "^"] \o <<"RESET">>

\* a zero-width annotation in the second column of a second line
C14_Witness ==
    /\ op = "render_console"
    /\ OneLineAnnotation
    /\ span.start = span.end
    /\ ColumnOfOffset(source, span.start) = 2
    /\ LineOfOffset(source, span.start) = 2
    /\ result.tag = "Ok"

\* an annotation a diagnostic of the source can carry: inside the source,
\* between characters, not ending before it starts
WellFormed(annotation) ==
    /\ annotation.span.start <= annotation.span.end
    /\ annotation.span.end <= Len(source)
    /\ BetweenChars(source, annotation.span.start)
    /\ BetweenChars(source, annotation.span.end)

RECURSIVE ConsoleBlocks(_)
\* the renderings of the first n annotations one after the other, each
\* followed by the line feed that ends its block
ConsoleBlocks(n) ==
    IF n = 0 THEN <<>>
    ELSE ConsoleBlocks(n - 1)
         \o render_console(source, annotations[n]).val \o <<"NL">>

\* C15: render_errors_console returns, in input order, the full
\* render_console rendering of every annotation of the list (each followed
\* by a line feed): n annotations yield n renderings also when their spans
\* overlap or are identical; render_errors_html yields exactly n fragments,
\* the i-th annotation under id i (1-based).
C15_EveryAnnotationRendered ==
    /\ op \in {"render_errors_console", "render_errors_html"}
       /\ (\A i \in 1..Len(annotations) : WellFormed(annotations[i]))
           => result.tag = "Ok"
    /\ op = "render_errors_console" /\ result.tag = "Ok"
           => result.val = ConsoleBlocks(Len(annotations))
    /\ op = "render_errors_html" /\ result.tag = "Ok"
           => /\ DOMAIN result.val = 1..Len(annotations)
              /\ \A i \in 1..Len(annotations) :
                     result.val[i] =
                         render_html(source, annotations[i], i).val

\* two annotations of one and the same span of one character, rendered
C15_Witness ==
    /\ op = "render_errors_console"
    /\ Len(annotations) = 2
    /\ annotations[1].span = annotations[2].span
    /\ annotations[1].span.start < annotations[1].span.end
    /\ WellFormed(annotations[1])
    /\ result.tag = "Ok"

----------------------------------------------------------------------------
(* TypeErrorVisitor (visitors/type_error_visitor.rs).  The program is the
   sequence of its visited nodes in visiting order, each [kind, name, span,
   depth]; a diagnostic is [span, message, code], span being the span of its
   first label (Span::default(), 0..0, for a diagnostic with no label).
   A declaration is visited as a statement of its own span as well
   (visit_statement): that second check of one span finds every diagnostic of
   the span processed, so the model visits the declaration only. *)

SomeCode(x) == [some |-> TRUE, val |-> x]

\* TypeErrorVisitor::extract_error_code
extract_error_code(diagnostic) ==
    LET code == diagnostic.code
    IN  IF code.scope.some /\ code.number.some
        THEN code.scope.val \o code.number.val
        ELSE IF code.scope.some THEN code.scope.val
        ELSE IF code.number.some THEN code.number.val
        ELSE "error"

\* TypeErrorVisitor::get_line_col
get_line_col(s, offset) ==
    IF offset >= Len(s) THEN [tag |-> "Ok", line |-> 0, column |-> 0]
    ELSE LET before == StrSlice(s, 0, offset)
         IN  IF before.tag = "Panic" THEN [tag |-> "Panic"]
             ELSE LET lines == Lines(before.val)
                      last_line == IF lines = <<>> THEN <<>>
                                   ELSE lines[Len(lines)]
                  IN  [tag |-> "Ok", line |-> Len(lines),
                       column |-> CountChars(last_line)]

RECURSIVE JoinNames(_)
\* self.current_scope.join("::")
JoinNames(names) ==
    IF Len(names) = 1 THEN names[1]
    ELSE names[1] \o "::" \o JoinNames(Tail(names))

\* TypeErrorVisitor::get_scope_string
get_scope_string(current_scope) ==
    IF current_scope = <<>> THEN "global" ELSE JoinNames(current_scope)

\* self.source.get(start..end).unwrap_or("")
SourceGet(s, sp) ==
    LET piece == StrSlice(s, sp.start, sp.end)
    IN  IF piece.tag = "Ok" THEN piece.val ELSE <<>>

\* the nodes of the program ScopeFinder has a visit method for
IsScopeNode(node) ==
    node.kind \in {"Function", "Class", "Method", "TypeAlias", "Interface"}
ScopeNodes(tree) == SelectSeq(tree, IsScopeNode)

\* .map(|ctx| SourceCode { .. }) on the context the extraction returned
SourceCodeOf(ctx) ==
    [some |-> TRUE,
     full_code |-> ctx.full_code,
     display_code |-> ctx.display_code,
     scope_type |-> ctx.scope_type,
     scope_name |-> ctx.scope_name]

\* extract_code_context(..).unwrap(): an Err is a panic
ContextUnwrapped(extracted) ==
    IF extracted.tag = "Ok"
    THEN [tag |-> "Ok", val |-> SourceCodeOf(extracted)]
    ELSE [tag |-> "Panic"]
\* extract_code_context(..).ok().map(..): an Err is None
ContextOk(extracted) ==
    IF extracted.tag = "Panic" THEN [tag |-> "Panic"]
    ELSE IF extracted.tag = "Ok"
    THEN [tag |-> "Ok", val |-> SourceCodeOf(extracted)]
    ELSE [tag |-> "Ok", val |-> None]

\* TypeErrorVisitor::add_error; the visitor with status "Panic" when a call
\* it makes panics, panic_at naming the diagnostic
add_error(v, index, tree) ==
    IF index \in v.processed_errors THEN v
    ELSE
    LET error == diagnostics[index]
        error_span == error.span
        position == get_line_col(source, error_span.start)
        block == SourceGet(source, error_span)
        source_code ==
            ContextOk(extract_code_context(source, error_span,
                                           ScopeNodes(tree)))
    IN  IF position.tag = "Panic" \/ source_code.tag = "Panic"
        THEN [v EXCEPT !.status = "Panic", !.panic_at = index]
        ELSE [v EXCEPT
                 !.errors = Append(@,
                     [id |-> extract_error_code(error),
                      message |-> error.message,
                      file |-> "unknown",
                      line |-> position.line,
                      column |-> position.column,
                      scope |-> get_scope_string(v.current_scope),
                      block |-> block,
                      source_code |-> source_code.val,
                      span |-> error_span]),
                 !.processed_errors = @ \cup {index}]

RECURSIVE CheckErrorsLoop(_, _, _, _)
\* for (i, error) in self.diagnostics.iter().enumerate(), from i on
CheckErrorsLoop(v, i, sp, tree) ==
    IF i > Len(diagnostics) \/ v.status = "Panic" THEN v
    ELSE IF i \notin v.processed_errors
            /\ contains_inclusive(sp, diagnostics[i].span)
         THEN CheckErrorsLoop(add_error(v, i, tree), i + 1, sp, tree)
         ELSE CheckErrorsLoop(v, i + 1, sp, tree)

\* TypeErrorVisitor::check_errors_in_span
check_errors_in_span(v, sp, tree) == CheckErrorsLoop(v, 1, sp, tree)

\* a visit_program that ends with the walk
RemainingLoopSkipped(v, i, tree) == v
RECURSIVE RemainingLoop(_, _, _)
\* the loop of visit_program after the walk
RemainingLoop(v, i, tree) ==
    IF i > Len(diagnostics) \/ v.status = "Panic" THEN v
    ELSE IF i \notin v.processed_errors
         THEN RemainingLoop(add_error(v, i, tree), i + 1, tree)
         ELSE RemainingLoop(v, i + 1, tree)

\* the walk as the sequence of its steps: a node is entered, the nodes below
\* it are walked, and it is left; open holds the nodes entered and not left
RECURSIVE Steps(_, _, _)
Steps(tree, i, open) ==
    IF open # <<>> /\ (i > Len(tree)
                       \/ tree[open[Len(open)]].depth >= tree[i].depth)
    THEN <<[leave |-> TRUE, node |-> open[Len(open)]]>>
         \o Steps(tree, i, SubSeq(open, 1, Len(open) - 1))
    ELSE IF i > Len(tree) THEN <<>>
    ELSE <<[leave |-> FALSE, node |-> i]>>
         \o Steps(tree, i + 1, Append(open, i))

\* what a visit method does before it walks into its node: visit_function
\* and visit_class push the id if there is one, visit_method_definition the
\* name of the key
EnterNode(v, node) ==
    IF node.kind \in {"Function", "Class", "Method"} /\ node.name # NoName
    THEN [v EXCEPT !.current_scope = Append(@, node.name)]
    ELSE v

\* if pushed { self.current_scope.pop() }, unless the visit has panicked
PopScope(v, node) ==
    IF v.status # "Panic"
       /\ node.kind \in {"Function", "Class", "Method"} /\ node.name # NoName
    THEN [v EXCEPT !.current_scope = SubSeq(@, 1, Len(@) - 1)]
    ELSE v

\* and after it: every visit method but visit_method_definition checks the
\* diagnostics against the span of its node; a name that was pushed is popped
LeaveNode(v, node, tree) ==
    PopScope(IF node.kind = "Method" THEN v
             ELSE check_errors_in_span(v, node.span, tree),
             node)

\* the walk goes on with the next step, unless the visit has panicked
Advance(v) ==
    IF v.status = "Panic" THEN v
    ELSE [v EXCEPT !.pc = @ + 1, !.status = "walking"]

\* visit_program returns, unless the visit has panicked
Finish(v) ==
    IF v.status = "Panic" THEN v ELSE [v EXCEPT !.status = "done"]

\* how format_type_errors_console shows the code of an error: highlighted
\* from source_code, else the legacy block, else nothing
FormatPath(error) ==
    IF error.source_code.some THEN "highlighted"
    ELSE IF error.block # <<>> THEN "block"
    ELSE "none"

----------------------------------------------------------------------------
(* visit_program on programs with diagnostics. *)

MaxVisitorLen == 3
MaxVisitorNodes == 2

VisitorKindsUnder(parent) ==
    IF parent \in {"Program", "Function"}
    THEN {"Function", "Class", "Statement"}
    ELSE IF parent = "Statement" THEN {"TypeAnnotation"}
    ELSE {}

VisitorNamedChoices(kind) ==
    IF kind \in {"Function", "Class"} THEN {TRUE, FALSE} ELSE {FALSE}

RECURSIVE VisitorForests(_, _, _, _, _)
\* as Forests, with statements and type annotations, each node with its depth
VisitorForests(lo, hi, budget, parent, depth) ==
    IF budget = 0 \/ hi <= lo THEN {<<>>}
    ELSE {<<>>} \cup UNION {
        UNION {
            UNION {
                UNION {
                    {<<[kind |-> k, named |-> nm, depth |-> depth,
                        span |-> [start |-> sp[1], end |-> sp[2]]]>>
                     \o kids \o rest :
                        rest \in VisitorForests(sp[2], hi,
                                     budget - 1 - Len(kids), parent, depth)} :
                    kids \in VisitorForests(sp[1] + 1, sp[2] - 1, budget - 1,
                                            k, depth + 1)} :
                sp \in {x \in (lo..hi) \X (lo..hi) : x[1] < x[2]}} :
            nm \in VisitorNamedChoices(k)} :
        k \in VisitorKindsUnder(parent)}

\* the i-th node is named after its kind and its place
VisitorNames(forest) ==
    [i \in 1..Len(forest) |->
        [kind |-> forest[i].kind,
         name |-> IF forest[i].named
                  THEN KindLetter(forest[i].kind) \o ToString(i)
                  ELSE NoName,
         span |-> forest[i].span,
         depth |-> forest[i].depth]]

VisitorTrees(len) ==
    {VisitorNames(f) : f \in VisitorForests(0, len, MaxVisitorNodes,
                                            "Program", 0)}

Node(kind, named, start, end, depth) ==
    [kind |-> kind, named |-> named, depth |-> depth,
     span |-> [start |-> start, end |-> end]]

\* "class C{m(){a;}}", with and without the id of the class: the method, the
\* function that is its value, and a statement in its body;
\* "function f(){function g(){a;}}": a function in a function;
\* "type T=a;" : a type alias and the type annotation in it
ShapedTrees ==
    {VisitorNames(<<Node("Class", nm, 0, 7, 0), Node("Method", TRUE, 1, 6, 1),
                    Node("Function", FALSE, 2, 6, 2),
                    Node("Statement", FALSE, 3, 5, 3)>>) : nm \in BOOLEAN}
    \cup {VisitorNames(<<Node("Function", TRUE, 0, 7, 0),
                         Node("Function", nm, 1, 6, 1),
                         Node("Statement", FALSE, 2, 4, 2),
                         Node("Statement", FALSE, 4, 5, 2)>>) :
              nm \in BOOLEAN}
    \cup {VisitorNames(<<Node("TypeAlias", TRUE, 0, 7, 0),
                         Node("TypeAnnotation", FALSE, 3, 6, 1)>>)}

\* the source of a shaped tree
ShapedLen == 7

\* the i-th diagnostic carries the message "m<i>"; the first one has the code
\* TS2322, the second one no code, a later one the scope only
CodeOf(i) ==
    IF i = 1 THEN [scope |-> SomeCode("TS"), number |-> SomeCode("2322")]
    ELSE IF i = 2 THEN [scope |-> None, number |-> None]
    ELSE [scope |-> SomeCode("TS"), number |-> None]

Diagnostic(i, sp) ==
    [span |-> sp, message |-> MessageOf(i), code |-> CodeOf(i)]

\* to_oxc_span: a label of offset and length, so that start <= end
ForwardSpans(s) == {sp \in Spans(s) : sp.start <= sp.end}

\* labels of no byte or one byte, up to one byte beyond the source
NarrowSpans(len) ==
    {[start |-> a, end |-> a + w] : a \in 0..(len + 1), w \in 0..1}

\* no diagnostic, one, or two
DiagnosticLists(sps) ==
    {<<>>} \cup {<<Diagnostic(1, a)>> : a \in sps}
           \cup {<<Diagnostic(1, a), Diagnostic(2, b)>> : a \in sps, b \in sps}

InitVisitor ==
    /\ \/ /\ source \in Texts
          /\ ast = <<>>
          /\ diagnostics \in {<<Diagnostic(1, sp)>> : sp \in ForwardSpans(source)}
       \/ /\ source = CodeOfLen(MaxVisitorLen)
          /\ ast \in VisitorTrees(MaxVisitorLen)
          /\ diagnostics \in DiagnosticLists(NarrowSpans(MaxVisitorLen))
       \/ /\ source = CodeOfLen(ShapedLen)
          /\ ast \in ShapedTrees
          /\ diagnostics \in DiagnosticLists(NarrowSpans(ShapedLen))
       \/ /\ source \in ListTexts
          /\ ast = <<>>
          /\ diagnostics \in DiagnosticLists(ForwardSpans(source))
    /\ span = [start |-> 0, end |-> 0]
    /\ scope = NoScope
    /\ build \in {"debug", "release"}
    /\ op = "none"
    /\ result = [tag |-> "None"]
    /\ annotations = <<>>
    /\ visitor = NewVisitor
    /\ highlighted = NoCode
    /\ watcher = NoWatcher

Walking == visitor.status \in {"new", "walking"}

\* the step the walk is at
StepAt(pc) == Steps(ast, 1, <<>>)[pc + 1]

\* a visit method is entered
VisitEnter ==
    /\ Walking
    /\ visitor.pc < Len(Steps(ast, 1, <<>>))
    /\ ~StepAt(visitor.pc).leave
    /\ visitor' = Advance(EnterNode(visitor, ast[StepAt(visitor.pc).node]))
    /\ UNCHANGED <<source, span, scope, ast, build, op, result, annotations,
                   diagnostics, highlighted, watcher>>

\* a visit method has walked its node and finishes
VisitLeave ==
    /\ Walking
    /\ visitor.pc < Len(Steps(ast, 1, <<>>))
    /\ StepAt(visitor.pc).leave
    /\ visitor' = Advance(LeaveNode(visitor, ast[StepAt(visitor.pc).node],
                                    ast))
    /\ UNCHANGED <<source, span, scope, ast, build, op, result, annotations,
                   diagnostics, highlighted, watcher>>

\* visit_program after walk_program: the remaining diagnostics are captured
\* at global scope, and visit_program returns
CaptureRemaining ==
    /\ Walking
    /\ visitor.pc = Len(Steps(ast, 1, <<>>))
    /\ visitor' = Finish(RemainingLoop(visitor, 1, ast))
    /\ op' = "visit_program"
    /\ UNCHANGED <<source, span, scope, ast, build, result, annotations,
                   diagnostics, highlighted, watcher>>

\* OutputFormatter::format_type_errors_console on the errors of the visitor
FormatTypeErrors ==
    /\ visitor.status = "done"
    /\ op = "visit_program"
    /\ op' = "format_type_errors"
    /\ result' = [tag |-> "Ok",
                  val |-> [i \in 1..Len(visitor.errors) |->
                              FormatPath(visitor.errors[i])]]
    /\ UNCHANGED idle

NextVisitor ==
    \/ VisitEnter
    \/ VisitLeave
    \/ CaptureRemaining
    \/ FormatTypeErrors

SpecVisitor == InitVisitor /\ [][NextVisitor]_vars

\* add_error calls extract_code_context for diagnostic i (the position of
\* its start can be computed: it lies between characters or not before the end
\* of the source), and the call returns Err(InvalidSpan)
Rejected(i) ==
    /\ \/ diagnostics[i].span.start >= Len(source)
       \/ BetweenChars(source, diagnostics[i].span.start)
    /\ extract_code_context(source, diagnostics[i].span,
                            ScopeNodes(ast)).tag = "Err"

\* the errors recorded for diagnostic i
RecordedFor(i) ==
    {k \in 1..Len(visitor.errors) :
        /\ visitor.errors[k].message = diagnostics[i].message
        /\ visitor.errors[k].span = diagnostics[i].span}

\* C16: when extract_code_context returns InvalidSpan for a diagnostic, the
\* pipeline does not abort: the visitor still records a TypeError for that
\* diagnostic, with its message, line, column and scope and with source_code
\* None, the remaining diagnostics are still processed, and the formatter
\* shows that error with no highlighted excerpt.
C16_InvalidSpanIsRecovered ==
    \A i \in 1..Len(diagnostics) :
        Rejected(i) =>
            /\ ~(visitor.status = "Panic" /\ visitor.panic_at = i)
            /\ visitor.status = "done" =>
                   /\ Cardinality(RecordedFor(i)) = 1
                   /\ \A k \in RecordedFor(i) :
                          /\ visitor.errors[k].source_code = None
                          /\ DOMAIN visitor.errors[k] =
                                 {"id", "message", "file", "line", "column",
                                  "scope", "block", "source_code", "span"}
                          /\ op = "format_type_errors" =>
                                 result.val[k] # "highlighted"
                   /\ \A j \in 1..Len(diagnostics) : RecordedFor(j) # {}

\* a program with a statement in a function: the first diagnostic ends beyond
\* the source, the second lies in the statement; both are recorded
C16_Witness ==
    /\ op = "format_type_errors"
    /\ ast # <<>>
    /\ Len(diagnostics) = 2
    /\ Rejected(1)
    /\ ~Rejected(2)
    /\ Len(visitor.errors) = 2
    /\ visitor.errors[1].message = diagnostics[2].message
    /\ visitor.errors[1].source_code.some
    /\ visitor.errors[2].source_code = None

----------------------------------------------------------------------------
(* The values of calculate_line_number and calculate_column_number. *)

\* the largest offset <= offset of s that lies between two characters
Snapped(s, offset) ==
    CHOOSE o \in 0..offset :
        /\ BetweenChars(s, o)
        /\ \A p \in 0..offset : BetweenChars(s, p) => p <= o

\* C17: with o the largest character boundary <= offset when offset <=
\* len(source), calculate_line_number returns 1 + the number of '\n' strictly
\* before o, and calculate_column_number 1 + the number of characters (not
\* bytes) between the start of the line containing o and o; when offset >
\* len(source) both return 1.
C17_LineAndColumnValues ==
    /\ op = "calculate_line_number" =>
           /\ result.tag = "Ok"
           /\ result.val = IF span.start > Len(source) THEN 1
                           ELSE LineOfOffset(source,
                                             Snapped(source, span.start))
    /\ op = "calculate_column_number" =>
           /\ result.tag = "Ok"
           /\ result.val = IF span.start > Len(source) THEN 1
                           ELSE ColumnOfOffset(source,
                                               Snapped(source, span.start))

\* the column of an offset inside a two-byte character that another
\* character precedes on the second line
C17_Witness ==
    /\ op = "calculate_column_number"
    /\ span.start <= Len(source)
    /\ ~BetweenChars(source, span.start)
    /\ LineOfOffset(source, Snapped(source, span.start)) = 2
    /\ result.tag = "Ok"
    /\ result.val = 2

----------------------------------------------------------------------------
(* The display of a truncated Function, Method or TypeUtility text. *)

\* the display with every omission marker replaced by one and the same line
MarkersLevelled ==
    [i \in 1..Len(DisplayLines) |->
        IF IsMarker(DisplayLines[i]) THEN <<"marker">> ELSE DisplayLines[i]]

WindowStart == Max(ErrorLine - 2, 0)
WindowEnd == Min(ErrorLine + 2, LastLine)

\* C18: for a Function, Method or TypeUtility text of 15 or more lines with
\* 0-indexed error line e and last line index L, the display is, in this
\* order: line 0; an omission marker when lines were skipped between line 0
\* and the window; the window lines max(e-2, 0) .. min(e+2, L); an omission
\* marker when lines remain between the window and line L; line L.
C18_DisplayOrder ==
    TruncatedLong =>
        MarkersLevelled =
            <<Lines(source)[1]>>
            \o (IF WindowStart - 1 >= 1 THEN <<<<"marker">>>> ELSE <<>>)
            \o SubSeq(Lines(source), WindowStart + 1, WindowEnd + 1)
            \o (IF LastLine - WindowEnd - 1 >= 1 THEN <<<<"marker">>>>
                ELSE <<>>)
            \o <<Lines(source)[LastLine + 1]>>

\* a 15-line text with the error on its second line: no marker before the
\* window, one after it
C18_Witness ==
    /\ TruncatedLong
    /\ TrueLineCount(source) = 15
    /\ ErrorLine = 1
    /\ IsMarker(DisplayLines[6])

----------------------------------------------------------------------------
(* The omitted ranges a TruncationInfo records. *)

\* the ranges of lines the display leaves out, in display order, as pairs
\* (first, last) of line numbers that call the signature line number base
OmittedRanges(base) ==
    (IF WindowStart - 1 >= 1
     THEN <<<<base + 1, base + WindowStart - 1>>>> ELSE <<>>)
    \o (IF LastLine - WindowEnd - 1 >= 1
        THEN <<<<base + WindowEnd + 1, base + LastLine - 1>>>> ELSE <<>>)

\* the markers of the display, in display order
MarkerLines == SelectSeq(DisplayLines, IsMarker)

\* the k-th marker prints the length of the k-th recorded section
MarkersCountSections ==
    /\ Len(MarkerLines) = Len(result.info.truncated_sections)
    /\ \A k \in 1..Len(MarkerLines) :
           MarkerLines[k] =
               <<"M(",
                 ToString(result.info.truncated_sections[k][2]
                          - result.info.truncated_sections[k][1] + 1),
                 ")M">>

\* C19 as amended: each entry of truncated_sections is the pair
\* (first_omitted_line, last_omitted_line) of one omitted contiguous range,
\* numbered 0-indexed relative to the scope text (the signature line is line
\* 0); the entries are in display order and the N of the corresponding marker
\* is last_omitted_line - first_omitted_line + 1.
C19_SectionsZeroIndexed ==
    TruncatedLong =>
        /\ result.info.some
        /\ result.info.truncated_sections = OmittedRanges(0)
        /\ MarkersCountSections

\* C19: each entry of truncated_sections is the pair (first_omitted_line,
\* last_omitted_line) of one omitted contiguous range, numbered 1-indexed
\* relative to the scope text (the signature line is line 1); the entries are
\* in display order and the N of the corresponding marker is
\* last_omitted_line - first_omitted_line + 1.
C19_SectionsOneIndexed ==
    TruncatedLong =>
        /\ result.info.some
        /\ result.info.truncated_sections = OmittedRanges(1)
        /\ MarkersCountSections

\* a 16-line text with the error on its eighth line: two sections
C19_Witness ==
    /\ TruncatedLong
    /\ TrueLineCount(source) = 16
    /\ ErrorLine = 7
    /\ Len(result.info.truncated_sections) = 2
    /\ result.info.truncated_sections[1][1] = 1

\* a line of white space only
BlankLine(l) == \A i \in 1..Len(l) : l[i] = "SP"
\* a line whose first character after its indentation is '}'
ClosingLine(l) == \E i \in 1..Len(l) :
    l[i] = "}" /\ \A j \in 1..(i - 1) : l[j] = "SP"
\* a line whose last character before trailing white space is '{' and that
\* contains a block keyword followed by a space
OpeningLine(l) ==
    /\ \E i \in 1..Len(l) : l[i] = "{" /\ \A j \in (i + 1)..Len(l) : l[j] = "SP"
    /\ \E i \in 1..(Len(l) - 1) : l[i] = "K" /\ l[i + 1] = "SP"

\* the lines of the scope text, numbered from 0
SourceLine(i) == Lines(source)[i + 1]

\* s is where the upward scan from line e ends: at most 3 lines up, no blank
\* line taken, no line taken beyond a closing line, and a reason to stop
ScanUpEndsAt(s, e) ==
    /\ 0 <= s /\ s <= e /\ e - s <= 3
    /\ \A i \in s..(e - 1) : ~BlankLine(SourceLine(i))
    /\ \A i \in (s + 1)..(e - 1) : ~ClosingLine(SourceLine(i))
    /\ \/ s = 0
       \/ e - s = 3
       \/ BlankLine(SourceLine(s - 1))
       \/ s < e /\ ClosingLine(SourceLine(s))

\* t is where the downward scan from line e ends: at most 3 lines down, no
\* blank line and no opening line taken, and a reason to stop
ScanDownEndsAt(t, e) ==
    /\ e <= t /\ t <= LastLine /\ t - e <= 3
    /\ \A i \in (e + 1)..t :
           ~BlankLine(SourceLine(i)) /\ ~OpeningLine(SourceLine(i))
    /\ \/ t = LastLine
       \/ t - e = 3
       \/ BlankLine(SourceLine(t + 1))
       \/ OpeningLine(SourceLine(t + 1))

\* a call of apply_truncation on a ModuleLevel text that returned
TruncatedModule ==
    /\ op = "apply_truncation"
    /\ scope.scope_type = "ModuleLevel"
    /\ result.tag = "Ok"

C21_ModuleReportsOmission ==
    TruncatedModule /\ TrueLineCount(source) > Len(DisplayLines)
                    /\ result.display # <<>> =>
        /\ result.info.some
        /\ result.info.displayed_line_count < result.info.original_line_count
        /\ \E i \in 1..Len(DisplayLines) : IsMarker(DisplayLines[i])

\* the methods that contain the diagnostic span, stand in a class without
\* id and have no node inside them that contains the span too
BareMethodsAround(sp) ==
    {i \in 1..Len(ast) :
        /\ ast[i].kind = "Method"
        /\ Encloses(ast[i].span, sp)
        /\ Parent(i) # 0
        /\ ast[Parent(i)].kind = "Class"
        /\ ast[Parent(i)].name = NoName
        /\ \A j \in 1..Len(ast) :
               i \in Ancestors(ast, j) => ~Encloses(ast[j].span, sp)}

\* C22: a diagnostic inside a method m whose enclosing class has no name
\* resolves to scope_name exactly "m", whatever named scopes enclose the
\* class.
C22_BareMethodName ==
    /\ op = "find_containing_scope"
    /\ span.start <= span.end
    /\ BareMethodsAround(span) # {}
    => /\ result.tag = "Ok"
       /\ \E i \in BareMethodsAround(span) : result.name = ast[i].name

----------------------------------------------------------------------------
(* HighlightedCode::render_html (syntect_highlighter.rs).  The output is a *)
(* sequence of parts: "PRE(" and ")PRE" for <pre><code> and its closing,   *)
(* "SPAN(" style parts ")" text "/SPAN" for a span, the style parts being  *)
(* the CSS declarations joined by ";".                                     *)

RECURSIVE JoinParts(_)
\* style_parts.join("; ")
JoinParts(parts) ==
    IF parts = <<>> THEN <<>>
    ELSE IF Len(parts) = 1 THEN parts[1]
    ELSE parts[1] \o <<";">> \o JoinParts(Tail(parts))

\* format!("color: rgb({}, {}, {})", fg.r, fg.g, fg.b)
ColorPart(fg) == <<"color", ToString(fg.r), ToString(fg.g), ToString(fg.b)>>

\* the style_parts vector of a segment, in the order of the pushes
StyleParts(style) ==
    (IF style.foreground.some THEN <<ColorPart(style.foreground)>> ELSE <<>>)
    \o (IF style.bold THEN <<<<"font-weight">>>> ELSE <<>>)
    \o (IF style.italic THEN <<<<"font-style">>>> ELSE <<>>)
    \o (IF style.underline THEN <<<<"text-decoration">>>> ELSE <<>>)

\* segment.style.foreground.is_some() || segment.style.bold
\*     || segment.style.italic
HasStyle(style) == style.foreground.some \/ style.bold \/ style.italic

\* the body of the loop for one segment: what it appends
SegmentHtml(segment, indent, line_start) ==
    (IF line_start /\ Len(indent) > 0 THEN encode_text(indent) ELSE <<>>)
    \o (IF HasStyle(segment.style)
        THEN <<"SPAN(">> \o JoinParts(StyleParts(segment.style)) \o <<")">>
             \o encode_text(segment.text) \o <<"/SPAN">>
        ELSE encode_text(segment.text))

\* segment.text.ends_with('\n')
EndsWithNewline(text) == text # <<>> /\ text[Len(text)] = "NL"

RECURSIVE RenderHtmlLoop(_, _, _, _)
\* for segment in &self.segments { .. }
RenderHtmlLoop(segments, indent, line_start, output) ==
    IF segments = <<>> THEN output
    ELSE LET segment == Head(segments)
             started == IF line_start /\ Len(indent) > 0 THEN FALSE
                        ELSE line_start
         IN  RenderHtmlLoop(Tail(segments), indent,
                            EndsWithNewline(segment.text) \/ started,
                            output \o SegmentHtml(segment, indent, line_start))

HighlightedCode_render_html(code) ==
    LET indent == Repeat("SP", code.indent_spaces)
    IN  [tag |-> "Ok",
         val |-> RenderHtmlLoop(code.segments, indent, TRUE, <<"PRE(">>)
                 \o <<")PRE">>]

\* segments in a HighlightedCode, and spaces of indentation
MaxSegments == 2
MaxIndent == 1

\* the foreground of a segment: none, or a colour
Foregrounds == {None, [some |-> TRUE, r |-> 255, g |-> 0, b |-> 0]}
SegmentStyles ==
    [foreground : Foregrounds, background : {None},
     bold : BOOLEAN, italic : BOOLEAN, underline : BOOLEAN]
SegmentTexts == {CharA, <<"<">>, CharA \o CharNL}
Segments == [text : SegmentTexts, style : SegmentStyles]

RECURSIVE SegmentLists(_)
SegmentLists(n) ==
    IF n = 0 THEN {<<>>}
    ELSE LET shorter == SegmentLists(n - 1)
         IN  shorter \cup {l \o <<sg>> : l \in shorter, sg \in Segments}

InitHighlight ==
    /\ highlighted \in [segments : SegmentLists(MaxSegments),
                        indent_spaces : 0..MaxIndent]
    /\ source = <<>>
    /\ span = [start |-> 0, end |-> 0]
    /\ scope = NoScope
    /\ ast = <<>>
    /\ build = "release"
    /\ op = "none"
    /\ result = [tag |-> "None"]
    /\ annotations = <<>>
    /\ diagnostics = <<>>
    /\ visitor = NewVisitor
    /\ watcher = NoWatcher

CallHighlightedRenderHtml ==
    /\ op = "none"
    /\ op' = "HighlightedCode::render_html"
    /\ result' = HighlightedCode_render_html(highlighted)
    /\ UNCHANGED idle

NextHighlight == CallHighlightedRenderHtml

SpecHighlight == InitHighlight /\ [][NextHighlight]_vars

\* the CSS properties of the properties of a style that are set
CssOf(style) ==
    (IF style.foreground.some THEN {"color"} ELSE {})
    \cup (IF style.bold THEN {"font-weight"} ELSE {})
    \cup (IF style.italic THEN {"font-style"} ELSE {})
    \cup (IF style.underline THEN {"text-decoration"} ELSE {})

CssNames == {"color", "font-weight", "font-style", "text-decoration"}

\* the part of the output one segment accounts for, its indentation left out
PieceOf(segment, piece) ==
    IF CssOf(segment.style) = {}
    THEN piece = encode_text(segment.text)
    ELSE /\ Len(piece) >= 3
         /\ piece[1] = "SPAN("
         /\ piece[Len(piece)] = "/SPAN"
         /\ \E close \in 2..(Len(piece) - 1) :
                /\ piece[close] = ")"
                /\ {piece[j] : j \in 2..(close - 1)} \cap CssNames
                       = CssOf(segment.style)
                /\ SubSeq(piece, close + 1, Len(piece) - 1)
                       = encode_text(segment.text)

\* C23: HighlightedCode.render_html wraps every segment that has a style
\* property set (foreground, bold, italic or underline) in a span whose
\* style lists exactly the CSS properties of the properties that are set,
\* and emits a segment with no property set as escaped text without a span.
C23_StyledSegmentsInSpans ==
    op = "HighlightedCode::render_html" /\ highlighted.indent_spaces = 0
        /\ Len(highlighted.segments) = 1 =>
        /\ result.tag = "Ok"
        /\ Len(result.val) >= 2
        /\ PieceOf(highlighted.segments[1],
                   SubSeq(result.val, 2, Len(result.val) - 1))

----------------------------------------------------------------------------
(* The scope string of a recorded error. *)

\* a named function, a named class or a method
NamesScope(node) ==
    node.kind \in {"Function", "Class", "Method"} /\ node.name # NoName

RECURSIVE NamesAround(_, _)
\* the names of the naming nodes from node i on that enclose sp, in source
\* order: an enclosing node comes before the nodes inside it
NamesAround(i, sp) ==
    IF i > Len(ast) THEN <<>>
    ELSE (IF NamesScope(ast[i]) /\ Encloses(ast[i].span, sp)
          THEN <<ast[i].name>> ELSE <<>>)
         \o NamesAround(i + 1, sp)

\* the nodes that enclose sp lie one inside the other: sp does not sit on
\* the boundary of two neighbours
Nested(sp) ==
    \A i, j \in 1..Len(ast) :
        i < j /\ Encloses(ast[i].span, sp) /\ Encloses(ast[j].span, sp)
            => i \in Ancestors(ast, j)

EnclosingScopeString(sp) ==
    IF NamesAround(1, sp) = <<>> THEN "global"
    ELSE JoinNames(NamesAround(1, sp))

\* C24: the scope string recorded for a diagnostic is the names of the named
\* functions, named classes and methods that enclose its span, outermost
\* first, joined by "::", and "global" when there is none; the scope-name
\* stack is empty when visit_program has finished.
C24_ScopeString ==
    /\ \A k \in 1..Len(visitor.errors) :
           Nested(visitor.errors[k].span) =>
               visitor.errors[k].scope
                   = EnclosingScopeString(visitor.errors[k].span)
    /\ visitor.status = "done" => visitor.current_scope = <<>>

----------------------------------------------------------------------------
(* Every diagnostic is reported once. *)

\* the visited nodes that check their span and contain diagnostic i
CheckedAround(i) ==
    {j \in 1..Len(ast) :
        ast[j].kind # "Method" /\ Encloses(ast[j].span, diagnostics[i].span)}

\* the errors recorded with the message of diagnostic i
ReportsOf(i) ==
    {k \in 1..Len(visitor.errors) :
        visitor.errors[k].message = diagnostics[i].message}

\* C25: after visit_program every input diagnostic has been reported exactly
\* once, also when several visited nodes contain its span; a diagnostic that
\* no visited node contains is reported at the end, with scope "global".
C25_ReportedExactlyOnce ==
    visitor.status = "done" =>
        /\ Len(visitor.errors) = Len(diagnostics)
        /\ visitor.processed_errors = 1..Len(diagnostics)
        /\ \A i \in 1..Len(diagnostics) :
               /\ Cardinality(ReportsOf(i)) = 1
               /\ \A k \in ReportsOf(i) :
                      /\ visitor.errors[k].span = diagnostics[i].span
                      /\ CheckedAround(i) = {} =>
                             /\ visitor.errors[k].scope = "global"
                             /\ \A n \in 1..Len(diagnostics) :
                                    CheckedAround(n) # {} =>
                                        \A m \in ReportsOf(n) : m < k

\* a statement in a function in a function, the first diagnostic outside every
\* node, the second inside the statement and so inside three checked spans
C25_Witness ==
    /\ visitor.status = "done"
    /\ Len(diagnostics) = 2
    /\ CheckedAround(1) = {}
    /\ Cardinality(CheckedAround(2)) >= 3
    /\ Len(visitor.errors) = 2
    /\ visitor.errors[1].message = diagnostics[2].message
    /\ visitor.errors[2].scope = "global"

----------------------------------------------------------------------------
(* FileWatcher (watcher.rs).  A path is [stem, ext]; the watched files are *)
(* a function from the TypeScript paths to their content, Absent for a     *)
(* file that does not exist.  Of a file's analysis only the symbols and    *)
(* the tests are kept, the parts of an AnalysisResult compute_diff reads.  *)

PathName(path) == path.stem \o "." \o path.ext

\* FileWatcher::is_ts_file
is_ts_file(path) == path.ext = "ts" \/ path.ext = "tsx"

Absent == [exists |-> FALSE]

\* Analyzer::analyze_single_file: read_to_string fails for a missing file
analyze_single_file(files, path) ==
    IF ~files[path].exists THEN [tag |-> "Err"]
    ELSE [tag |-> "Ok",
          symbols |-> [i \in 1..Len(files[path].symbols) |->
                          [name |-> files[path].symbols[i].name,
                           kind |-> files[path].symbols[i].kind,
                           file |-> PathName(path)]],
          tests |-> [i \in 1..Len(files[path].tests) |->
                        [file |-> PathName(path),
                         test_name |-> files[path].tests[i].test_name,
                         status |-> files[path].tests[i].status]]]

RECURSIVE AnalyzeLoop(_, _, _)
\* the analyses that succeed are collected in the order of the paths
AnalyzeLoop(files, paths, res) ==
    IF paths = <<>> THEN res
    ELSE LET file_analysis == analyze_single_file(files, Head(paths))
         IN  AnalyzeLoop(files, Tail(paths),
                 IF file_analysis.tag = "Err" THEN res
                 ELSE [res EXCEPT
                          !.symbols = @ \o file_analysis.symbols,
                          !.tests = @ \o file_analysis.tests])

\* Analyzer::analyze_files
analyze_files(files, paths) ==
    AnalyzeLoop(files, paths,
                [symbols |-> <<>>, tests |-> <<>>, total_files |-> Len(paths)])

\* .iter().any(|s| s.name == sym.name && s.kind == sym.kind
\*                 && s.file == sym.file)
AnySymbol(symbols, sym) ==
    \E i \in 1..Len(symbols) :
        /\ symbols[i].name = sym.name
        /\ symbols[i].kind = sym.kind
        /\ symbols[i].file = sym.file

RECURSIVE SymbolsAdded(_, _)
\* for new_sym in &new.symbols { .. }
SymbolsAdded(new_symbols, old) ==
    IF new_symbols = <<>> THEN <<>>
    ELSE LET new_sym == Head(new_symbols)
         IN  (IF ~AnySymbol(old.symbols, new_sym)
              THEN <<[type |-> "SymbolAdded", name |-> new_sym.name,
                      kind |-> new_sym.kind, file |-> new_sym.file]>>
              ELSE <<>>)
             \o SymbolsAdded(Tail(new_symbols), old)

RECURSIVE SymbolsRemoved(_, _)
\* for old_sym in &old.symbols { .. }
SymbolsRemoved(old_symbols, new) ==
    IF old_symbols = <<>> THEN <<>>
    ELSE LET old_sym == Head(old_symbols)
         IN  (IF ~AnySymbol(new.symbols, old_sym)
              THEN <<[type |-> "SymbolRemoved", name |-> old_sym.name,
                      file |-> old_sym.file]>>
              ELSE <<>>)
             \o SymbolsRemoved(Tail(old_symbols), new)

\* old.tests.iter().find(|t| t.file == new_test.file
\*                           && t.test_name == new_test.test_name)
FindTest(tests, new_test) ==
    LET found == {i \in 1..Len(tests) :
                     /\ tests[i].file = new_test.file
                     /\ tests[i].test_name = new_test.test_name}
    IN  IF found = {} THEN None
        ELSE [some |-> TRUE,
              val |-> tests[CHOOSE i \in found : \A j \in found : i <= j]]

\* the events of one new test
TestEvents(old, new_test) ==
    LET old_test == FindTest(old.tests, new_test)
    IN  IF ~old_test.some
        THEN <<[type |-> "NewTestAdded", file |-> new_test.file,
                test |-> new_test.test_name]>>
        ELSE IF old_test.val.status = new_test.status THEN <<>>
        ELSE <<[type |-> "TestStatusChanged", file |-> new_test.file,
                test |-> new_test.test_name, status |-> new_test.status]>>
             \o (IF new_test.status = "Failing"
                    /\ old_test.val.status # "Failing"
                 THEN <<[type |-> "NewFailingTest", file |-> new_test.file,
                         test |-> new_test.test_name]>>
                 ELSE IF new_test.status = "Passing"
                         /\ old_test.val.status = "Failing"
                 THEN <<[type |-> "TestFixed", file |-> new_test.file,
                         test |-> new_test.test_name]>>
                 ELSE <<>>)

RECURSIVE TestsChanged(_, _)
\* for new_test in &new.tests { .. }
TestsChanged(new_tests, old) ==
    IF new_tests = <<>> THEN <<>>
    ELSE TestEvents(old, Head(new_tests)) \o TestsChanged(Tail(new_tests), old)

\* FileWatcher::compute_diff
compute_diff(old, new) ==
    SymbolsAdded(new.symbols, old) \o SymbolsRemoved(old.symbols, new)
    \o TestsChanged(new.tests, old)

\* for path in &event.paths { if self.is_ts_file(path) { push } }
TsPaths(paths) == SelectSeq(paths, is_ts_file)

RECURSIVE AffectedFiles(_)
\* the first loop of process_debounced_events
AffectedFiles(events) ==
    IF events = <<>> THEN <<>>
    ELSE (IF Head(events).kind \in {"Modify", "Create", "Remove"}
          THEN TsPaths(Head(events).paths) ELSE <<>>)
         \o AffectedFiles(Tail(events))

RECURSIVE HandlerCallsByHandler(_, _)
\* a delivery that gives every event to the first handler, then every event
\* to the next one
HandlerCallsByHandler(diff_events, handlers) ==
    IF handlers = 0 THEN <<>>
    ELSE HandlerCallsByHandler(diff_events, handlers - 1)
         \o [e \in 1..Len(diff_events) |->
                [handler |-> handlers, event |-> diff_events[e]]]
RECURSIVE HandlerCalls(_, _)
\* for event in diff_events { for handler in &self.handlers { .. } }
HandlerCalls(diff_events, handlers) ==
    IF diff_events = <<>> THEN <<>>
    ELSE [h \in 1..handlers |-> [handler |-> h, event |-> Head(diff_events)]]
         \o HandlerCalls(Tail(diff_events), handlers)

\* the calls of handle_event a batch makes when previous_state is prev
CallsOf(prev, current_result, handlers) ==
    IF prev.some
    THEN HandlerCalls(compute_diff(prev.val, current_result), handlers)
    ELSE <<>>

\* a batch that stores its result whether a handler failed or not
StoredAlways(prev, current_result, failed) ==
    [some |-> TRUE, val |-> current_result]
\* *previous_state = Some(current_result), which the ? of a failed
\* handle_event does not reach
Stored(prev, current_result, failed) ==
    IF failed THEN prev ELSE [some |-> TRUE, val |-> current_result]

\* FileWatcher::process_debounced_events on the events of a batch; the
\* fail_at-th call of handle_event returns an error (none if fail_at = 0
\* or beyond the calls made)
process_debounced_events(w, events, fail_at) ==
    LET affected_files == AffectedFiles(events)
    IN  IF affected_files = <<>>
        THEN [w EXCEPT !.delivered = <<>>, !.returned = "Ok",
                       !.current = None]
        ELSE
        LET current_result == analyze_files(w.files, affected_files)
            calls == CallsOf(w.previous_state, current_result, w.handlers)
            failed == fail_at \in 1..Len(calls)
        IN  [w EXCEPT !.delivered = IF failed THEN SubSeq(calls, 1, fail_at)
                                    ELSE calls,
                      !.returned = IF failed THEN "Err" ELSE "Ok",
                      !.current = [some |-> TRUE, val |-> current_result],
                      !.previous_state = Stored(@, current_result, failed)]

\* FileWatcher::new
NewWatcher(handlers, files) ==
    [handlers |-> handlers,
     previous_state |-> None,
     files |-> files,
     events |-> <<>>,
     current |-> None,
     before |-> None,
     delivered |-> <<>>,
     returned |-> "None",
     batches |-> 0]

\* handlers of a FileWatcher, events of a batch, batches of a run
MaxHandlers == 2
MaxEvents == 2
MaxBatches == 3

TsFiles == {[stem |-> "a", ext |-> "ts"], [stem |-> "b", ext |-> "tsx"]}
OtherFiles == {[stem |-> "c", ext |-> "md"]}

Symbol(name) == [name |-> name, kind |-> "Function"]
Test(status) == [test_name |-> "t", status |-> status]

\* what a TypeScript file can hold: one symbol, or two, or one symbol and a
\* test that passes or fails
Contents ==
    {[exists |-> TRUE, symbols |-> <<Symbol("x")>>, tests |-> <<>>],
     [exists |-> TRUE, symbols |-> <<Symbol("x"), Symbol("y")>>,
      tests |-> <<>>],
     [exists |-> TRUE, symbols |-> <<Symbol("x")>>,
      tests |-> <<Test("Passing")>>],
     [exists |-> TRUE, symbols |-> <<Symbol("x")>>,
      tests |-> <<Test("Failing")>>]}

\* when watch starts a file is missing or holds one symbol
StartContents ==
    {Absent, [exists |-> TRUE, symbols |-> <<Symbol("x")>>, tests |-> <<>>]}

InitWatcher ==
    /\ watcher \in {NewWatcher(h, files) :
                       h \in 1..MaxHandlers,
                       files \in [TsFiles -> StartContents]}
    /\ source = <<>>
    /\ span = [start |-> 0, end |-> 0]
    /\ scope = NoScope
    /\ ast = <<>>
    /\ build = "release"
    /\ op = "none"
    /\ result = [tag |-> "None"]
    /\ annotations = <<>>
    /\ diagnostics = <<>>
    /\ visitor = NewVisitor
    /\ highlighted = NoCode

\* watch has not returned: no batch has returned an error
Watching == watcher.returned # "Err" /\ watcher.batches < MaxBatches

\* a watched TypeScript file is created, modified or removed, and the
\* debouncer collects the event
TouchFile ==
    /\ Watching
    /\ Len(watcher.events) < MaxEvents
    /\ \E path \in TsFiles, content \in Contents \cup {Absent} :
           /\ content # watcher.files[path]
           /\ watcher' =
                  [watcher EXCEPT
                      !.files[path] = content,
                      !.events = Append(@,
                          [kind |-> IF ~watcher.files[path].exists
                                    THEN "Create"
                                    ELSE IF ~content.exists THEN "Remove"
                                    ELSE "Modify",
                           paths |-> <<path>>])]
    /\ UNCHANGED <<source, span, scope, ast, build, op, result, annotations,
                   diagnostics, visitor, highlighted>>

\* an event that changes no TypeScript file: another file is modified, or a
\* TypeScript file is opened
OtherEvent ==
    /\ Watching
    /\ Len(watcher.events) < MaxEvents
    /\ \E event \in {[kind |-> "Modify", paths |-> <<path>>] :
                        path \in OtherFiles}
                    \cup {[kind |-> "Access", paths |-> <<path>>] :
                             path \in TsFiles} :
           watcher' = [watcher EXCEPT !.events = Append(@, event)]
    /\ UNCHANGED <<source, span, scope, ast, build, op, result, annotations,
                   diagnostics, visitor, highlighted>>

\* the debouncer sends its events and watch calls process_debounced_events
ProcessDebouncedEvents ==
    /\ Watching
    /\ watcher.events # <<>>
    /\ \E fail_at \in 0..(MaxHandlers + 1) :
           watcher' =
               [process_debounced_events(watcher, watcher.events, fail_at)
                   EXCEPT !.events = <<>>,
                          !.before = watcher.previous_state,
                          !.batches = @ + 1]
    /\ op' = "process_debounced_events"
    /\ UNCHANGED <<source, span, scope, ast, build, result, annotations,
                   diagnostics, visitor, highlighted>>

NextWatcher == TouchFile \/ OtherEvent \/ ProcessDebouncedEvents

SpecWatcher == InitWatcher /\ [][NextWatcher]_vars

\* process_debounced_events has just returned: no file has changed since
AfterBatch == watcher.handlers > 0 /\ watcher.batches > 0
                  /\ watcher.events = <<>>

\* the watched file of that name holds a symbol of that name
HoldsSymbol(file, name) ==
    \E path \in TsFiles :
        /\ PathName(path) = file
        /\ watcher.files[path].exists
        /\ \E i \in 1..Len(watcher.files[path].symbols) :
               watcher.files[path].symbols[i].name = name

\* C26: a SymbolRemoved event is delivered only for a symbol that no longer
\* exists in its file; a symbol of a file that is not part of the batch is
\* not reported as removed.
C26_RemovedSymbolsAreGone ==
    AfterBatch =>
        \A i \in 1..Len(watcher.delivered) :
            watcher.delivered[i].event.type = "SymbolRemoved" =>
                ~HoldsSymbol(watcher.delivered[i].event.file,
                             watcher.delivered[i].event.name)

\* every event of the diff, each given to the handlers 1..n in that order
EachToEveryHandler(diff, n) ==
    [k \in 1..(Len(diff) * n) |->
        [handler |-> ((k - 1) % n) + 1, event |-> diff[((k - 1) \div n) + 1]]]

\* the result stored mirrors the files: each of its symbols is in its file
MirrorsFiles(res) ==
    /\ res.total_files > 0
    /\ \A i \in 1..Len(res.symbols) :
           HoldsSymbol(res.symbols[i].file, res.symbols[i].name)

\* the last batch held a .ts/.tsx path and every handler call returned Ok
Analysed == AfterBatch /\ watcher.current.some /\ watcher.returned = "Ok"

\* C27: no WatchEvent is delivered while no previous analysis result exists:
\* the first batch with a .ts/.tsx path only stores its result; for a later
\* such batch the delivered events are exactly compute_diff(previous result,
\* current result), each event given to every handler in registration
\* order, and previous_state becomes the current result.
C27_DeliveredIsDiff ==
    /\ AfterBatch /\ ~watcher.before.some => watcher.delivered = <<>>
    /\ Analysed =>
           /\ watcher.previous_state = watcher.current
           /\ MirrorsFiles(watcher.previous_state.val)
           /\ watcher.before.some =>
                  watcher.delivered =
                      EachToEveryHandler(
                          compute_diff(watcher.before.val,
                                       watcher.current.val),
                          watcher.handlers)

\* two handlers, a third batch whose diff has two events or more
C27_Witness ==
    /\ Analysed
    /\ watcher.batches = 3
    /\ watcher.before.some
    /\ watcher.handlers = 2
    /\ Len(watcher.delivered) >= 4
    /\ watcher.delivered[1].event # watcher.delivered[3].event

\* s is t or the beginning of t
IsPrefix(s, t) == Len(s) <= Len(t) /\ s = SubSeq(t, 1, Len(s))

\* C28: if a handler returns an error while the events of a batch are being
\* delivered, process_debounced_events returns that error at once, no later
\* handler or event of the batch is invoked, and previous_state keeps the
\* value it had before the batch; a batch with no .ts/.tsx path leaves
\* previous_state unchanged and delivers nothing.
C28_HandlerErrorStopsBatch ==
    /\ AfterBatch /\ watcher.returned = "Err" =>
           /\ watcher.previous_state = watcher.before
           /\ watcher.before.some /\ watcher.current.some
           /\ watcher.delivered # <<>>
           /\ IsPrefix(watcher.delivered,
                       EachToEveryHandler(
                           compute_diff(watcher.before.val,
                                        watcher.current.val),
                           watcher.handlers))
    /\ AfterBatch /\ ~watcher.current.some =>
           /\ watcher.previous_state = watcher.before
           /\ watcher.delivered = <<>>
           /\ watcher.returned = "Ok"

\* the first of two handlers fails on the second event of a batch: three
\* calls were made, the fourth was not, and the earlier result is kept
C28_Witness ==
    /\ AfterBatch
    /\ watcher.returned = "Err"
    /\ watcher.handlers = 2
    /\ Len(watcher.delivered) = 3
    /\ watcher.previous_state = watcher.before
    /\ watcher.previous_state # watcher.current

----------------------------------------------------------------------------
(* Every line of a truncated function text is shown or counted once. *)

RECURSIVE OmittedCount(_)
\* the number of lines in the recorded sections
OmittedCount(sections) ==
    IF sections = <<>> THEN 0
    ELSE (Head(sections)[2] - Head(sections)[1] + 1)
         + OmittedCount(Tail(sections))

\* C29: in the display of function-scope truncation every line of the
\* original text appears at most once: the displayed non-marker lines and
\* the recorded omitted ranges account for each original line exactly once.
C29_EachLineOnce ==
    TruncatedLong =>
        (result.info.displayed_line_count
             - Len(result.info.truncated_sections))
        + OmittedCount(result.info.truncated_sections)
            = TrueLineCount(source)

----------------------------------------------------------------------------
(* The line and column of a recorded error. *)

\* C30: for every TypeError recorded by TypeErrorVisitor, line and column are
\* the 1-based line and column of span.start in the source, as
\* calculate_line_number and calculate_column_number return them, also at the
\* start of the file and at the first character of a line.
C30_RecordedLineAndColumn ==
    \A k \in 1..Len(visitor.errors) :
        LET start == visitor.errors[k].span.start
        IN  start < Len(source) /\ BetweenChars(source, start) =>
                /\ visitor.errors[k].line = LineOfOffset(source, start)
                /\ visitor.errors[k].column = ColumnOfOffset(source, start)

====
